---- MODULE Spec2Model ----
(***************************************************************************)
(* A model of the constraint solver of lib/Sema: the constraint system's   *)
(* journaled state (CSSolver.cpp, ConstraintSystem.cpp), solver scopes,    *)
(* simplification, the step-driven search and the two-pass top-level solve.*)
(***************************************************************************)
EXTENDS Integers, Sequences, FiniteSets, TLC

\* ------------------------------------------------------------------ bounds
\* Disjunctions (overload sets) a generated system holds at most.
MaxDisj == 2
\* Alternatives of one disjunction.
NumAlts == 2

\* Concrete types of the external type graph.
Types == {"Int", "String"}
\* No type variable, no constraint: a null pointer.
None == 0
\* No fixed type.
NoType == "NoType"
\* Type variables: one per overload set, one more of the expression, and one
\* opened from a generic declaration.
MaxTVs == MaxDisj + 2
TVs == 1..MaxTVs

\* ------------------------------------------------------------------ score
\* Score: a vector of penalty counters, compared lexicographically.
SK_Fix == 1
SK_DisfavoredOverload == 2
SK_NonDefaultLiteral == 3
ZeroScore == <<0, 0, 0>>
\* The default type of the literal protocol.
DefaultLiteralType == "Int"

ScoreLess(a, b) ==
    \/ a[1] < b[1]
    \/ a[1] = b[1] /\ a[2] < b[2]
    \/ a[1] = b[1] /\ a[2] = b[2] /\ a[3] < b[3]

ScoreLessEq(a, b) == a = b \/ ScoreLess(a, b)

\* ------------------------------------------------------- sequence helpers
Last(s) == s[Len(s)]
Prefix(s, n) == SubSeq(s, 1, n)
Suffix(s, n) == SubSeq(s, n + 1, Len(s))
Range(s) == {s[i] : i \in 1..Len(s)}
Reverse(s) == [i \in 1..Len(s) |-> s[Len(s) + 1 - i]]
RemoveAt(s, i) == SubSeq(s, 1, i - 1) \o SubSeq(s, i + 1, Len(s))
InsertAt(s, i, x) == SubSeq(s, 1, i - 1) \o <<x>> \o SubSeq(s, i, Len(s))
IndexOf(s, x) == IF \E i \in 1..Len(s) : s[i] = x
                 THEN CHOOSE i \in 1..Len(s) : s[i] = x /\ \A j \in 1..(i - 1) : s[j] # x
                 ELSE 0
SelectSeqIds(s, ids) == SelectSeq(s, LAMBDA c : c.id \in ids)
RejectSeqIds(s, ids) == SelectSeq(s, LAMBDA c : c.id \notin ids)
Ids(s) == {s[i].id : i \in 1..Len(s)}

\* ------------------------------------------------------------------ state
VARIABLES
    problem,      \* the input: the constraints to generate, options, policy
    cs,           \* the ConstraintSystem with its attached SolverState
    workList,     \* solveImpl: the stack of solver steps
    prevFailed,   \* solveImpl: whether the step advanced last returned Error
    solutions,    \* the solutions vector of the running pass
    pc,           \* where the top-level solve is
    stage,        \* solve: 0 = first attempt, 1 = salvage
    passResult,   \* the SolutionResult of the pass that ended last
    returned,     \* what solve handed back: <<>> (None) or the solutions
    timedOut      \* whether the expression timer / memory budget ran out

vars == <<problem, cs, workList, prevFailed, solutions, pc, stage, passResult,
          returned, timedOut>>

\* ------------------------------------------------------------ constraints
\* A constraint: kind, operands and locator (its id).  Disjunctions carry
\* their alternatives; an alternative is a nested constraint: a BindOverload
\* of an overload choice (a declaration), or a Bind of the disjunction's type
\* variable to a type.  A nested constraint can be disabled, and can carry a
\* fix.
Decl(ty, disfavored, partial) ==
    [ty |-> ty, disfavored |-> disfavored, partial |-> partial,
     kind |-> "BindOverload", keyPathDynamicMemberLookup |-> FALSE,
     disabled |-> FALSE, fix |-> FALSE]
\* A pure type variable binding: Bind(tv, ty).
BindChoice(ty) == [Decl(ty, FALSE, FALSE) EXCEPT !.kind = "Bind"]
\* An overload choice found by key path dynamic member lookup.
KeyPathChoice(ty) == [Decl(ty, FALSE, FALSE) EXCEPT !.keyPathDynamicMemberLookup = TRUE]
\* Constraint::isDisabled / getFix of a nested constraint.
isDisabled(choice) == choice.disabled
getFix(choice) == choice.fix
\* A declaration's reference type is concrete (ty \in Types) or, for a generic
\* declaration (ty = Generic), a fresh type variable opened from its signature.
Generic == "Generic"
IsGeneric(decl) == decl.ty = Generic

Constraint(id, kind, tv, tv2, ty, alts) ==
    [id |-> id, kind |-> kind, tv |-> tv, tv2 |-> tv2, ty |-> ty, alts |-> alts]
BindC(id, tv, ty) == Constraint(id, "Bind", tv, None, ty, <<>>)
EqualC(id, tv, tv2) == Constraint(id, "Equal", tv, tv2, NoType, <<>>)
ConformsC(id, tv, ty) == Constraint(id, "Conforms", tv, None, ty, <<>>)
DisjunctionC(id, tv, alts) == Constraint(id, "Disjunction", tv, None, NoType, alts)
\* tv converts to tv2: tv2 is the second (right-hand) type.
ConversionC(id, tv, tv2) == Constraint(id, "Conversion", tv, tv2, NoType, <<>>)

\* The type variables a constraint mentions (its constraint-graph edges).
Mentions(c) == {c.tv} \cup (IF c.kind \in {"Equal", "Conversion"} THEN {c.tv2} ELSE {})

\* ------------------------------------------------- type variables, journal
RECURSIVE getRepresentative(_, _)
getRepresentative(s, tv) ==
    IF s.rep[tv] = tv THEN tv ELSE getRepresentative(s, s.rep[tv])

getFixedType(s, tv) == s.fixed[getRepresentative(s, tv)]

EquivalenceClass(s, tv) ==
    {v \in Range(s.TypeVariables) : getRepresentative(s, v) = getRepresentative(s, tv)}

\* Faulty variant: no type variable is ever reported free.
hasNoFreeTypeVariables(s) == FALSE

hasFreeTypeVariables(s) ==
    \E v \in Range(s.TypeVariables) : s.rep[v] = v /\ s.fixed[v] = NoType

\* SavedTypeVariableBinding: the variable with its parent-or-fixed slot.
SavedBinding(s, tv) == [tv |-> tv, rep |-> s.rep[tv], fixed |-> s.fixed[tv]]

\* getSavedBindings() is null while no solver state is attached.
recordBinding(s, tv) ==
    IF s.solverState THEN Append(s.savedBindings, SavedBinding(s, tv))
    ELSE s.savedBindings

increaseScore(s, kind) ==
    [s EXCEPT !.CurrentScore = [@ EXCEPT ![kind] = @ + 1]]

\* The is-active flag of the constraints is kept as the set of the ids of
\* the constraints whose flag is set.
activateConstraint(s, c) ==
    [s EXCEPT !.InactiveConstraints = RejectSeqIds(@, {c.id}),
              !.ActiveConstraints = Append(@, c),
              !.isActive = @ \cup {c.id}]

deactivateConstraint(s, c) ==
    [s EXCEPT !.ActiveConstraints = RejectSeqIds(@, {c.id}),
              !.InactiveConstraints = Append(@, c),
              !.isActive = @ \ {c.id}]

RECURSIVE activateAll(_, _)
activateAll(s, list) ==
    IF list = <<>> THEN s
    ELSE activateAll(activateConstraint(s, Head(list)), Tail(list))

\* Faulty variant: a change to one type variable activates every inactive
\* constraint.
addEveryConstraintToWorkList(s, tv) ==
    activateAll(s, s.InactiveConstraints)

\* Activate the constraints affected by a change to this type variable.
addTypeVariableConstraintsToWorkList(s, tv) ==
    LET class == EquivalenceClass(s, tv)
        gathered == SelectSeq(s.InactiveConstraints,
                              LAMBDA c : /\ Mentions(c) \cap class # {}
                                         /\ c.id \notin s.isActive)
    IN  activateAll(s, gathered)

\* Faulty variant: the fixed type is written to the variable itself, not to
\* the representative of its equivalence class.
assignFixedTypeToVariable(s, tv, ty, updateState) ==
    LET s1 == [s EXCEPT !.savedBindings = recordBinding(s, tv),
                        !.fixed = [@ EXCEPT ![tv] = ty]]
    IN  IF ~updateState THEN s1
        ELSE addTypeVariableConstraintsToWorkList(s1, tv)

\* Faulty variant: the fixed type is assigned and journaled, but the solver's
\* state is never updated.
assignFixedTypeQuietly(s, tv, ty, updateState) ==
    LET r == getRepresentative(s, tv)
    IN  [s EXCEPT !.savedBindings = recordBinding(s, r),
                  !.fixed = [@ EXCEPT ![r] = ty]]

\* TypeVariableType::Implementation::assignFixedType followed by the
\* constraint system's bookkeeping.
assignFixedType(s, tv, ty, updateState) ==
    LET r == getRepresentative(s, tv)
        s1 == [s EXCEPT !.savedBindings = recordBinding(s, r),
                        !.fixed = [@ EXCEPT ![r] = ty],
                        !.fatal = @ \/ s.fixed[r] # NoType]
        isLiteral == \E v \in EquivalenceClass(s1, r) : v = problem.literalTV
        s2 == IF isLiteral /\ ty # DefaultLiteralType
              THEN increaseScore(s1, SK_NonDefaultLiteral) ELSE s1
    IN  IF ~updateState THEN s1
        ELSE addTypeVariableConstraintsToWorkList(s2, tv)

\* Both must be representatives, and distinct (asserted).  Lower id wins as
\* the representative; the other representative is journaled and re-parented.
mergeEquivalenceClasses(s, typeVar1, typeVar2, updateWorkList) ==
    LET keep == IF typeVar1 < typeVar2 THEN typeVar1 ELSE typeVar2
        other == IF typeVar1 < typeVar2 THEN typeVar2 ELSE typeVar1
        s1 == [s EXCEPT !.savedBindings = recordBinding(s, other),
                        !.rep = [@ EXCEPT ![other] = keep],
                        !.fatal = \/ @
                                  \/ typeVar1 # getRepresentative(s, typeVar1)
                                  \/ typeVar2 # getRepresentative(s, typeVar2)
                                  \/ typeVar1 = typeVar2]
    IN  IF updateWorkList THEN addTypeVariableConstraintsToWorkList(s1, typeVar1)
        ELSE s1

\* Restore the most recent numBindings saved bindings, most recent first.
RECURSIVE restoreEach(_, _)
restoreEach(s, saved) ==
    IF saved = <<>> THEN s
    ELSE LET b == Head(saved)
         IN  restoreEach([s EXCEPT !.rep = [@ EXCEPT ![b.tv] = b.rep],
                                   !.fixed = [@ EXCEPT ![b.tv] = b.fixed],
                                   !.restored = Append(@, b)],
                         Tail(saved))

\* Faulty variant: the entries are dropped from the journal unrestored.
restoreTypeVariableBindingsForgetting(s, numBindings) ==
    [s EXCEPT !.savedBindings = Prefix(@, Len(@) - numBindings)]

\* Faulty variant: the entries are restored oldest first.
restoreTypeVariableBindingsOldestFirst(s, numBindings) ==
    LET n == Len(s.savedBindings)
        s1 == restoreEach(s, Suffix(s.savedBindings, n - numBindings))
    IN  [s1 EXCEPT !.savedBindings = Prefix(@, n - numBindings)]

restoreTypeVariableBindings(s, numBindings) ==
    LET n == Len(s.savedBindings)
        s1 == restoreEach(s, Reverse(Suffix(s.savedBindings, n - numBindings)))
    IN  [s1 EXCEPT !.savedBindings = Prefix(@, n - numBindings)]

\* ------------------------------------------------------ constraint lists
\* A solved constraint leaves the lists and is remembered by the solver
\* state so that the scope that retired it can put it back.
retireConstraint(s, c) ==
    LET s0 == IF c.id \in s.isActive THEN deactivateConstraint(s, c) ELSE s
        s1 == [s0 EXCEPT !.ActiveConstraints = RejectSeqIds(@, {c.id}),
                         !.InactiveConstraints = RejectSeqIds(@, {c.id})]
    IN  IF s.solverState
        THEN [s1 EXCEPT !.retiredConstraints = Append(@, c)]
        ELSE s1

retireFailedConstraint(s, c) ==
    [retireConstraint(s, c) EXCEPT !.failedConstraint = c.id]

\* A constraint that could not be solved when it was generated joins the
\* inactive list and the solver state's list of generated constraints.
addUnsolvedConstraint(s, c) ==
    LET s1 == [s EXCEPT !.InactiveConstraints = Append(@, c)]
    IN  IF s.solverState
        THEN [s1 EXCEPT !.generatedConstraints = Append(@, c)]
        ELSE s1

\* SolverState::rollback: constraints retired since the scope was registered
\* return to circulation, constraints generated since then are removed.
\* The nested constraints the solver state disabled since the scope was
\* registered are enabled again.
rollback(s, scope) ==
    LET back == Reverse(Suffix(s.retiredConstraints, scope.numRetiredConstraints))
        gen == Ids(Suffix(s.generatedConstraints, scope.numGeneratedConstraints))
        disabled == Range(Suffix(s.disabledConstraints, scope.numDisabledConstraints))
        enabled(list) ==
            [k \in DOMAIN list |->
                [list[k] EXCEPT !.alts =
                    [i \in DOMAIN @ |->
                        IF [locator |-> list[k].id, index |-> i] \in disabled
                        THEN [@[i] EXCEPT !.disabled = FALSE] ELSE @[i]]]]
    IN  [s EXCEPT !.InactiveConstraints = enabled(RejectSeqIds(@ \o back, gen)),
                  !.retiredConstraints = Prefix(@, scope.numRetiredConstraints),
                  !.generatedConstraints = Prefix(@, scope.numGeneratedConstraints),
                  !.disabledConstraints = Prefix(@, scope.numDisabledConstraints),
                  !.scopes = Prefix(@, Len(@) - 1)]

\* ------------------------------------------------------------ SolverScope
\* What a client of the constraint system can observe of it.
Observable(s) ==
    [TypeVariables |-> s.TypeVariables,
     rep |-> s.rep,
     fixed |-> s.fixed,
     active |-> Range(s.ActiveConstraints),
     inactive |-> Range(s.InactiveConstraints),
     ResolvedOverloads |-> s.ResolvedOverloads,
     Fixes |-> s.Fixes,
     OpenedTypes |-> s.OpenedTypes,
     CurrentScore |-> s.CurrentScore]

SolverScope(s) ==
    [numTypeVariables |-> Len(s.TypeVariables),
     numSavedBindings |-> Len(s.savedBindings),
     numFixes |-> Len(s.Fixes),
     numDisjunctionChoices |-> Len(s.DisjunctionChoices),
     numOpenedTypes |-> Len(s.OpenedTypes),
     numResolvedOverloads |-> Len(s.ResolvedOverloads),
     PreviousScore |-> s.CurrentScore,
     numDisabledConstraints |-> Len(s.disabledConstraints),
     numRetiredConstraints |-> Len(s.retiredConstraints),
     numGeneratedConstraints |-> Len(s.generatedConstraints)]

\* SolverScope::SolverScope: snapshot the journal lengths, register the scope.
\* The constructor asserts that no constraint has failed.
pushScope(s) ==
    [s EXCEPT !.scopes = Append(@, SolverScope(s)),
              !.snapshots = Append(@, Observable(s)),
              !.openedWhileFailed = @ \/ s.failedConstraint # None,
              !.fatal = @ \/ s.failedConstraint # None]

\* Faulty variant: the scope, on destruction, leaves the "failed" state set.
popScopeKeepingFailure(s) ==
    LET scope == Last(s.scopes)
        s1 == [s EXCEPT !.TypeVariables = Prefix(@, scope.numTypeVariables),
                        !.ResolvedOverloads = Prefix(@, scope.numResolvedOverloads),
                        !.restored = <<>>]
        s2 == restoreTypeVariableBindings(s1,
                  Len(s1.savedBindings) - scope.numSavedBindings)
        s3 == [s2 EXCEPT !.InactiveConstraints = @ \o s2.ActiveConstraints,
                         !.ActiveConstraints = <<>>,
                         !.isActive = @ \ Ids(s2.ActiveConstraints)]
        s4 == rollback(s3, scope)
        s5 == [s4 EXCEPT !.Fixes = Prefix(@, scope.numFixes),
                         !.DisjunctionChoices = Prefix(@, scope.numDisjunctionChoices),
                         !.OpenedTypes = Prefix(@, scope.numOpenedTypes),
                         !.CurrentScore = scope.PreviousScore]
    IN  [s5 EXCEPT !.snapshots = Prefix(@, Len(@) - 1),
                   !.lastPop = <<[depth |-> Len(s.scopes),
                                  before |-> Last(s.snapshots),
                                  atPop |-> Observable(s),
                                  after |-> Observable(s5),
                                  spliced |-> [active |-> Ids(s3.ActiveConstraints),
                                               inactive |-> Ids(s3.InactiveConstraints),
                                               isActive |-> s3.isActive],
                                  scoreAtPop |-> s.CurrentScore,
                                  failedAtPop |-> s.failedConstraint,
                                  journal |-> s.savedBindings,
                                  journalAfter |-> s5.savedBindings,
                                  restored |-> s5.restored,
                                  scope |-> scope]>>]

\* Faulty variant: the scope, on destruction, leaves the overloads resolved
\* within it on record.
popScopeKeepingOverloads(s) ==
    LET scope == Last(s.scopes)
        s1 == [s EXCEPT !.TypeVariables = Prefix(@, scope.numTypeVariables),
                        !.restored = <<>>]
        s2 == restoreTypeVariableBindings(s1,
                  Len(s1.savedBindings) - scope.numSavedBindings)
        s3 == [s2 EXCEPT !.InactiveConstraints = @ \o s2.ActiveConstraints,
                         !.ActiveConstraints = <<>>,
                         !.isActive = @ \ Ids(s2.ActiveConstraints)]
        s4 == rollback(s3, scope)
        s5 == [s4 EXCEPT !.Fixes = Prefix(@, scope.numFixes),
                         !.DisjunctionChoices = Prefix(@, scope.numDisjunctionChoices),
                         !.OpenedTypes = Prefix(@, scope.numOpenedTypes),
                         !.CurrentScore = scope.PreviousScore,
                         !.failedConstraint = None]
    IN  [s5 EXCEPT !.snapshots = Prefix(@, Len(@) - 1),
                   !.lastPop = <<[depth |-> Len(s.scopes),
                                  before |-> Last(s.snapshots),
                                  atPop |-> Observable(s),
                                  after |-> Observable(s5),
                                  spliced |-> [active |-> Ids(s3.ActiveConstraints),
                                               inactive |-> Ids(s3.InactiveConstraints),
                                               isActive |-> s3.isActive],
                                  scoreAtPop |-> s.CurrentScore,
                                  failedAtPop |-> s.failedConstraint,
                                  journal |-> s.savedBindings,
                                  journalAfter |-> s5.savedBindings,
                                  restored |-> s5.restored,
                                  scope |-> scope]>>]

\* Faulty variant: the constraints still active stay on the active list.
popScopeLeavingActive(s) ==
    LET scope == Last(s.scopes)
        s1 == [s EXCEPT !.TypeVariables = Prefix(@, scope.numTypeVariables),
                        !.ResolvedOverloads = Prefix(@, scope.numResolvedOverloads),
                        !.restored = <<>>]
        s2 == restoreTypeVariableBindings(s1,
                  Len(s1.savedBindings) - scope.numSavedBindings)
        s3 == s2
        s4 == rollback(s3, scope)
        s5 == [s4 EXCEPT !.Fixes = Prefix(@, scope.numFixes),
                         !.DisjunctionChoices = Prefix(@, scope.numDisjunctionChoices),
                         !.OpenedTypes = Prefix(@, scope.numOpenedTypes),
                         !.CurrentScore = scope.PreviousScore,
                         !.failedConstraint = None]
    IN  [s5 EXCEPT !.snapshots = Prefix(@, Len(@) - 1),
                   !.lastPop = <<[depth |-> Len(s.scopes),
                                  before |-> Last(s.snapshots),
                                  atPop |-> Observable(s),
                                  after |-> Observable(s5),
                                  spliced |-> [active |-> Ids(s3.ActiveConstraints),
                                               inactive |-> Ids(s3.InactiveConstraints),
                                               isActive |-> s3.isActive],
                                  scoreAtPop |-> s.CurrentScore,
                                  failedAtPop |-> s.failedConstraint,
                                  journal |-> s.savedBindings,
                                  journalAfter |-> s5.savedBindings,
                                  restored |-> s5.restored,
                                  scope |-> scope]>>]

\* Faulty variant: the constraints moved to the inactive list keep their
\* is-active flag.
popScopeLeavingFlags(s) ==
    LET scope == Last(s.scopes)
        s1 == [s EXCEPT !.TypeVariables = Prefix(@, scope.numTypeVariables),
                        !.ResolvedOverloads = Prefix(@, scope.numResolvedOverloads),
                        !.restored = <<>>]
        s2 == restoreTypeVariableBindings(s1,
                  Len(s1.savedBindings) - scope.numSavedBindings)
        s3 == [s2 EXCEPT !.InactiveConstraints = @ \o s2.ActiveConstraints,
                         !.ActiveConstraints = <<>>]
        s4 == rollback(s3, scope)
        s5 == [s4 EXCEPT !.Fixes = Prefix(@, scope.numFixes),
                         !.DisjunctionChoices = Prefix(@, scope.numDisjunctionChoices),
                         !.OpenedTypes = Prefix(@, scope.numOpenedTypes),
                         !.CurrentScore = scope.PreviousScore,
                         !.failedConstraint = None]
    IN  [s5 EXCEPT !.snapshots = Prefix(@, Len(@) - 1),
                   !.lastPop = <<[depth |-> Len(s.scopes),
                                  before |-> Last(s.snapshots),
                                  atPop |-> Observable(s),
                                  after |-> Observable(s5),
                                  spliced |-> [active |-> Ids(s3.ActiveConstraints),
                                               inactive |-> Ids(s3.InactiveConstraints),
                                               isActive |-> s3.isActive],
                                  scoreAtPop |-> s.CurrentScore,
                                  failedAtPop |-> s.failedConstraint,
                                  journal |-> s.savedBindings,
                                  journalAfter |-> s5.savedBindings,
                                  restored |-> s5.restored,
                                  scope |-> scope]>>]

\* SolverScope::~SolverScope for the innermost open scope.
popScope(s) ==
    LET scope == Last(s.scopes)
        \* Erase the end of various lists.
        s1 == [s EXCEPT !.TypeVariables = Prefix(@, scope.numTypeVariables),
                        !.ResolvedOverloads = Prefix(@, scope.numResolvedOverloads),
                        !.restored = <<>>]
        \* Restore bindings.
        s2 == restoreTypeVariableBindings(s1,
                  Len(s1.savedBindings) - scope.numSavedBindings)
        \* Move any remaining active constraints into the inactive list.
        s3 == [s2 EXCEPT !.InactiveConstraints = @ \o s2.ActiveConstraints,
                         !.ActiveConstraints = <<>>,
                         !.isActive = @ \ Ids(s2.ActiveConstraints)]
        \* Rollback all of the changes done to constraints by the current scope.
        s4 == rollback(s3, scope)
        s5 == [s4 EXCEPT !.Fixes = Prefix(@, scope.numFixes),
                         !.DisjunctionChoices = Prefix(@, scope.numDisjunctionChoices),
                         !.OpenedTypes = Prefix(@, scope.numOpenedTypes),
                         \* Reset the previous score.
                         !.CurrentScore = scope.PreviousScore,
                         \* Clear out other "failed" state.
                         !.failedConstraint = None]
    IN  [s5 EXCEPT !.snapshots = Prefix(@, Len(@) - 1),
                   !.lastPop = <<[depth |-> Len(s.scopes),
                                  before |-> Last(s.snapshots),
                                  atPop |-> Observable(s),
                                  after |-> Observable(s5),
                                  spliced |-> [active |-> Ids(s3.ActiveConstraints),
                                               inactive |-> Ids(s3.InactiveConstraints),
                                               isActive |-> s3.isActive],
                                  scoreAtPop |-> s.CurrentScore,
                                  failedAtPop |-> s.failedConstraint,
                                  journal |-> s.savedBindings,
                                  journalAfter |-> s5.savedBindings,
                                  restored |-> s5.restored,
                                  scope |-> scope]>>]

\* ------------------------------------------------------------ SolverState
\* Faulty variant: every solver state records fixes.
attachSolverStateRecordingFixes(s, allowFreeTypeVariables, recordFixes) ==
    [s EXCEPT !.solverState = TRUE,
              !.attached = @ + 1,
              !.AllowFreeTypeVariables = allowFreeTypeVariables,
              !.recordFixes = TRUE,
              !.activeConstraints = s.ActiveConstraints,
              !.BestScore = <<>>,
              !.savedBindings = <<>>,
              !.retiredConstraints = <<>>,
              !.generatedConstraints = <<>>,
              !.disabledConstraints = <<>>,
              !.scopes = <<>>]

\* SolverState::SolverState: attach to the system and record the constraints
\* that are active, for re-activation at the end of its lifetime.
attachSolverState(s, allowFreeTypeVariables, recordFixes) ==
    [s EXCEPT !.solverState = TRUE,
              !.attached = @ + 1,
              !.AllowFreeTypeVariables = allowFreeTypeVariables,
              !.recordFixes = recordFixes,
              !.activeConstraints = s.ActiveConstraints,
              !.BestScore = <<>>,
              !.savedBindings = <<>>,
              !.retiredConstraints = <<>>,
              !.generatedConstraints = <<>>,
              !.disabledConstraints = <<>>,
              !.scopes = <<>>]

\* Faulty variant: the solver state, at the end of its lifetime, stays
\* attached to the system.
detachSolverStateLeavingAttached(s) ==
    LET isActive(c) == c.id \in s.isActive
        toActivate == SelectSeq(s.activeConstraints, LAMBDA c : ~isActive(c))
    IN  activateAll(s, toActivate)

\* Faulty variant: the constraints which were initially active are left where
\* the search put them.
detachSolverStateWithoutReactivating(s) ==
    [s EXCEPT !.solverState = FALSE,
              !.attached = @ - 1,
              !.activeConstraints = <<>>]

\* SolverState::~SolverState: detach and re-activate the constraints which
\* were initially marked as active.  It is asserted that no constraint is
\* left retired or generated, and that each constraint to re-activate is on
\* the inactive list.
detachSolverState(s) ==
    LET isActive(c) == c.id \in s.isActive
        toActivate == SelectSeq(s.activeConstraints, LAMBDA c : ~isActive(c))
    IN  [activateAll(s, toActivate) EXCEPT
            !.solverState = FALSE,
            !.attached = @ - 1,
            !.activeConstraints = <<>>,
            !.fatal = \/ @
                      \/ s.retiredConstraints # <<>>
                      \/ s.generatedConstraints # <<>>
                      \/ \E c \in Range(toActivate) :
                             c.id \notin Ids(s.InactiveConstraints)]

\* --------------------------------------------------------- simplification
UnresolvedType == "Unresolved"
shouldAttemptFixes(s) == s.solverState /\ s.recordFixes

Fix(kind, locator) == [kind |-> kind, locator |-> locator]

\* A fix is a recorded, scored penalty that lets solving continue.
recordFix(s, fix) ==
    [increaseScore(s, SK_Fix) EXCEPT !.Fixes = Append(@, fix)]

Result(kind, s) == [kind |-> kind, s |-> s]

\* A mismatch is an Error, or with fixes allowed a recorded fix.
mismatch(s, locator) ==
    IF shouldAttemptFixes(s)
    THEN Result("Solved", recordFix(s, Fix("mismatch", locator)))
    ELSE Result("Error", s)

\* Bind a type variable to a concrete type (matchTypes, Bind).
matchBind(s, tv, ty, locator) ==
    LET cur == getFixedType(s, tv)
    IN  IF cur = NoType THEN Result("Solved", assignFixedType(s, tv, ty, TRUE))
        ELSE IF cur = ty THEN Result("Solved", s)
        ELSE mismatch(s, locator)

\* Equate two type variables (matchTypes, Equal).
matchEqual(s, tv1, tv2, locator) ==
    LET r1 == getRepresentative(s, tv1)
        r2 == getRepresentative(s, tv2)
        t1 == s.fixed[r1]
        t2 == s.fixed[r2]
    IN  IF r1 = r2 THEN Result("Solved", s)
        ELSE IF t1 = NoType /\ t2 = NoType
             THEN Result("Solved", mergeEquivalenceClasses(s, r1, r2, TRUE))
        ELSE IF t1 = NoType THEN Result("Solved", assignFixedType(s, r1, t2, TRUE))
        ELSE IF t2 = NoType THEN Result("Solved", assignFixedType(s, r2, t1, TRUE))
        ELSE IF t1 = t2 THEN Result("Solved", s)
        ELSE mismatch(s, locator)

\* The type, once known, must be the conforming one; until then Unsolved.
matchConforms(s, tv, ty, locator) ==
    LET cur == getFixedType(s, tv)
    IN  IF cur = NoType THEN Result("Unsolved", s)
        ELSE IF cur = ty THEN Result("Solved", s)
        ELSE mismatch(s, locator)

\* A conversion between two type variables waits until both have a fixed
\* type; the types of the external type graph convert only to themselves.
matchConversion(s, tv1, tv2, locator) ==
    LET t1 == getFixedType(s, tv1)
        t2 == getFixedType(s, tv2)
    IN  IF t1 = NoType \/ t2 = NoType THEN Result("Unsolved", s)
        ELSE IF t1 = t2 THEN Result("Solved", s)
        ELSE mismatch(s, locator)

\* addConstraint: simplify the new constraint at once; keep it if Unsolved,
\* note the failure if it failed.
addConstraint(s, c, r) ==
    IF r.kind = "Unsolved" THEN addUnsolvedConstraint(r.s, c)
    ELSE IF r.kind = "Error" /\ r.s.failedConstraint = None
         THEN [r.s EXCEPT !.failedConstraint = c.id]
    ELSE r.s

\* The constraint generated for an opened generic parameter at a locator.
GeneratedId(locator) == MaxDisj + 2 + locator

\* Faulty variant: a disfavored overload lowers the score.
noteDisfavoredAsBonus(s, choice) ==
    IF choice.disfavored
    THEN [s EXCEPT !.CurrentScore = [@ EXCEPT ![SK_DisfavoredOverload] = @ - 1]]
    ELSE s

\* If this overload is disfavored, note that.
noteDisfavored(s, choice) ==
    IF choice.disfavored THEN increaseScore(s, SK_DisfavoredOverload) ELSE s

\* resolveOverload: compute the reference type of the choice (opening a
\* generic declaration into a fresh type variable), record the overload
\* against the locator, bind the bound type to the reference type and
\* update the score.
resolveOverload(s, locator, boundTV, choice) ==
    LET fresh == Len(s.TypeVariables) + 1
        conf == ConformsC(GeneratedId(locator), fresh, DefaultLiteralType)
        \* getTypeOfReference: open the generic signature.
        s1 == IF IsGeneric(choice)
              THEN LET o == [s EXCEPT !.TypeVariables = Append(@, fresh),
                                      !.OpenedTypes = Append(@, [locator |-> locator,
                                                                 tv |-> fresh])]
                   IN  addConstraint(o, conf, matchConforms(o, fresh, conf.ty, conf.id))
              ELSE s
        \* An invalid partial application is recorded as a fix.
        s2 == IF choice.partial
              THEN recordFix(s1, Fix("partialApplication", locator)) ELSE s1
        \* Note that we have resolved this overload.
        s3 == [s2 EXCEPT !.ResolvedOverloads =
                             Append(@, [locator |-> locator, choice |-> choice])]
        \* bindOverloadType.
        bind == IF IsGeneric(choice)
                THEN EqualC(locator, boundTV, fresh) ELSE BindC(locator, boundTV, choice.ty)
        s4 == addConstraint(s3, bind,
                  IF IsGeneric(choice) THEN matchEqual(s3, boundTV, fresh, locator)
                  ELSE matchBind(s3, boundTV, choice.ty, locator))
    IN  noteDisfavored(s4, choice)

\* simplifyConstraint: the per-kind dispatcher.
simplifyConstraint(s, c) ==
    CASE c.kind = "Bind" -> matchBind(s, c.tv, c.ty, c.id)
      [] c.kind = "Equal" -> matchEqual(s, c.tv, c.tv2, c.id)
      [] c.kind = "Conforms" -> matchConforms(s, c.tv, c.ty, c.id)
      [] c.kind = "Conversion" -> matchConversion(s, c.tv, c.tv2, c.id)
      [] c.kind = "Disjunction" -> Result("Unsolved", s)

\* simplifyDisjunctionChoice: a BindOverload alternative resolves the
\* overload; a Bind alternative is added and simplified as a Bind constraint.
simplifyDisjunctionChoice(s, disjunction, index) ==
    LET choice == disjunction.alts[index]
    IN  IF choice.kind = "Bind"
        THEN addConstraint(s, BindC(disjunction.id, disjunction.tv, choice.ty),
                           matchBind(s, disjunction.tv, choice.ty, disjunction.id))
        ELSE resolveOverload(s, disjunction.id, disjunction.tv, choice)

\* ------------------------------------------------------------- the inputs
\* Overload choices: a plain declaration of each type, a disfavored one, one
\* whose reference is an invalid partial application, and a generic one.
DeclShapes ==
    {Decl(ty, FALSE, FALSE) : ty \in Types}
        \cup {Decl(DefaultLiteralType, TRUE, FALSE), Decl("String", FALSE, TRUE),
              Decl(Generic, FALSE, FALSE)}
PlainShapes == {Decl(ty, FALSE, FALSE) : ty \in Types}

\* The alternatives of a further overload set: plain declarations, one per
\* type in turn.
TypeOrder == <<"Int", "String">>
PlainAlts == [i \in 1..NumAlts |-> Decl(TypeOrder[((i - 1) % Len(TypeOrder)) + 1], FALSE, FALSE)]

\* The alternatives of the first overload set: its first two alternatives
\* range over all shapes, further ones over the plain declarations.
FirstAlts ==
    {a \in [1..NumAlts -> DeclShapes] : \A i \in 3..NumAlts : a[i] \in PlainShapes}

\* The overload sets of the expression: disjunction k binds type variable k.
DisjunctionLists ==
    {<<>>} \cup {[k \in 1..n |-> IF k = 1 THEN a ELSE PlainAlts] :
                    n \in 1..MaxDisj, a \in FirstAlts}

LinkId == MaxDisj + 1
\* More constraints of the expression, generated before ("first") or after
\* the overload sets.  Type variable 2 is the second overload set's, or one
\* more variable of the expression.  The conflicting link binds one variable
\* to two types.
Link(first, list) == [first |-> first, list |-> list]
NoLink == Link(FALSE, <<>>)
EqualLink == Link(FALSE, <<EqualC(LinkId, 1, 2)>>)
ConflictLink == Link(TRUE, <<BindC(LinkId, 1, "Int"), BindC(LinkId + 1, 1, "String")>>)
\* Two requirements on one variable, the first of which a binding to Int
\* fails.
TwoConformsLink ==
    Link(FALSE, <<ConformsC(LinkId, 1, "String"), ConformsC(LinkId + 1, 1, "Int")>>)
LinkChoices ==
    {NoLink, EqualLink, ConflictLink, TwoConformsLink}
        \cup {Link(f, <<BindC(LinkId, 1, ty)>>) : f \in BOOLEAN, ty \in Types}
        \cup {Link(FALSE, <<ConformsC(LinkId, 1, ty)>>) : ty \in Types}

\* Compiler options, the policy argument of solve and the environment of the
\* expression, varied one at a time around the defaults.
Option(hacks, policy, literalTV, allowUnresolved, suppress, genFails, timer) ==
    [DisableConstraintSolverPerformanceHacks |-> hacks,
     allowFreeTypeVariables |-> policy,
     literalTV |-> literalTV,
     AllowUnresolvedTypeVariables |-> allowUnresolved,
     suppressDiagnostics |-> suppress,
     generationFails |-> genFails,
     timer |-> timer]
DefaultOption == Option(FALSE, "Disallow", None, FALSE, FALSE, FALSE, FALSE)
PlaceholderOption == Option(FALSE, "UnresolvedType", None, FALSE, FALSE, FALSE, FALSE)
Options ==
    {DefaultOption,
     Option(TRUE, "Disallow", None, FALSE, FALSE, FALSE, FALSE),
     Option(FALSE, "Allow", None, FALSE, FALSE, FALSE, FALSE),
     PlaceholderOption,
     Option(FALSE, "Disallow", 1, FALSE, FALSE, FALSE, FALSE),
     Option(TRUE, "Disallow", 1, FALSE, FALSE, FALSE, FALSE),
     Option(FALSE, "Disallow", None, TRUE, FALSE, FALSE, FALSE),
     Option(FALSE, "Disallow", None, FALSE, TRUE, FALSE, FALSE),
     Option(FALSE, "Disallow", None, FALSE, FALSE, TRUE, FALSE),
     Option(FALSE, "Disallow", None, FALSE, FALSE, FALSE, TRUE)}

\* The constraints in generation order.
GenerationOrder(disj, link) ==
    LET ds == [k \in 1..Len(disj) |-> DisjunctionC(k, k, disj[k])]
    IN  IF link.first THEN link.list \o ds ELSE ds \o link.list

MaxOf(S) == CHOOSE x \in S : \A y \in S : y <= x

\* The empty constraint system: type variables created, nothing bound.
EmptySystem(numTypeVariables) ==
    [TypeVariables |-> [i \in 1..numTypeVariables |-> i],
     rep |-> [v \in TVs |-> v],
     fixed |-> [v \in TVs |-> NoType],
     ActiveConstraints |-> <<>>,
     InactiveConstraints |-> <<>>,
     isActive |-> {},
     ResolvedOverloads |-> <<>>,
     Fixes |-> <<>>,
     OpenedTypes |-> <<>>,
     DisjunctionChoices |-> <<>>,
     CurrentScore |-> ZeroScore,
     failedConstraint |-> None,
     \* a fatal precondition (an assertion) has been violated
     fatal |-> FALSE,
     \* SolverState
     solverState |-> FALSE,
     \* the number of live solver states constructed on this system
     attached |-> 0,
     AllowFreeTypeVariables |-> "Disallow",
     recordFixes |-> FALSE,
     activeConstraints |-> <<>>,
     BestScore |-> <<>>,
     savedBindings |-> <<>>,
     retiredConstraints |-> <<>>,
     generatedConstraints |-> <<>>,
     disabledConstraints |-> <<>>,
     scopes |-> <<>>,
     \* history: whether a scope has been opened with a failed constraint
     \* recorded
     openedWhileFailed |-> FALSE,
     \* history: the bindings the last scope pop restored, in order, and the
     \* observable state at each open scope's push and around the last pop
     restored |-> <<>>,
     snapshots |-> <<>>,
     lastPop |-> <<>>]

\* Constraint generation: each constraint is added, and simplified as it is.
RECURSIVE generateConstraints(_, _)
generateConstraints(s, list) ==
    IF list = <<>> THEN s
    ELSE LET c == Head(list)
         IN  generateConstraints(addConstraint(s, c, simplifyConstraint(s, c)),
                                 Tail(list))

\* ---------------------------------------------------------------- ranking
\* The comparison of a faulty simplify: a score equal to the best counts as
\* worse.
noBetterThanBestSolution(s) ==
    /\ ~problem.DisableConstraintSolverPerformanceHacks
    /\ s.solverState
    /\ s.BestScore # <<>>
    /\ ScoreLessEq(s.BestScore[1], s.CurrentScore)

\* The comparison of a faulty simplify: the wrong way round.
betterThanBestSolution(s) ==
    /\ ~problem.DisableConstraintSolverPerformanceHacks
    /\ s.solverState
    /\ s.BestScore # <<>>
    /\ ScoreLess(s.CurrentScore, s.BestScore[1])

\* Whether the running score is worse than the best complete score seen.
worseThanBestSolution(s) ==
    /\ ~problem.DisableConstraintSolverPerformanceHacks
    /\ s.solverState
    /\ s.BestScore # <<>>
    /\ ScoreLess(s.BestScore[1], s.CurrentScore)

MinScore(sols) ==
    CHOOSE m \in {sols[i].score : i \in 1..Len(sols)} :
        \A i \in 1..Len(sols) : ScoreLessEq(m, sols[i].score)

\* findBestSolution: the index of the one solution strictly better than all
\* the others, or None; with minimize, the clearly worse ones are dropped.
findBestSolution(sols) ==
    IF sols = <<>> THEN None
    ELSE IF Len(sols) = 1 THEN 1
    ELSE LET best == {i \in 1..Len(sols) : sols[i].score = MinScore(sols)}
         IN  IF Cardinality(best) = 1 THEN CHOOSE i \in best : TRUE ELSE None

minimized(sols) ==
    IF sols = <<>> THEN sols
    ELSE SelectSeq(sols, LAMBDA x : x.score = MinScore(sols))

\* filterSolutions: keep the single best solution when there is one.
filterSolutions(sols) ==
    IF Len(sols) < 2 THEN sols
    ELSE IF findBestSolution(sols) # None THEN <<sols[findBestSolution(sols)]>>
    ELSE sols

\* --------------------------------------------------------------- finalize
\* Faulty variant: the placeholder is assigned to every type variable, free
\* or not.
RECURSIVE bindFreeTypeVariablesUnchecked(_, _)
bindFreeTypeVariablesUnchecked(s, tvs) ==
    IF tvs = <<>> THEN s
    ELSE IF s.AllowFreeTypeVariables # "UnresolvedType"
         THEN bindFreeTypeVariablesUnchecked(s, Tail(tvs))
         ELSE bindFreeTypeVariablesUnchecked(
                  assignFixedType(s, Head(tvs), UnresolvedType, TRUE), Tail(tvs))

\* Faulty variant: the placeholder is stored in the free type variables
\* directly, without a record in the journal of saved bindings.
RECURSIVE bindFreeTypeVariablesUnrecorded(_, _)
bindFreeTypeVariablesUnrecorded(s, tvs) ==
    IF tvs = <<>> THEN s
    ELSE LET tv == Head(tvs)
         IN  IF getFixedType(s, tv) # NoType
                \/ s.AllowFreeTypeVariables # "UnresolvedType"
             THEN bindFreeTypeVariablesUnrecorded(s, Tail(tvs))
             ELSE bindFreeTypeVariablesUnrecorded(
                      [s EXCEPT !.fixed = [@ EXCEPT ![getRepresentative(s, tv)] =
                                                        UnresolvedType]],
                      Tail(tvs))

\* Bind the type variables still free as the policy says.
RECURSIVE bindFreeTypeVariables(_, _)
bindFreeTypeVariables(s, tvs) ==
    IF tvs = <<>> THEN s
    ELSE LET tv == Head(tvs)
         IN  IF getFixedType(s, tv) # NoType
                \/ s.AllowFreeTypeVariables # "UnresolvedType"
             THEN bindFreeTypeVariables(s, Tail(tvs))
             ELSE bindFreeTypeVariables(assignFixedType(s, tv, UnresolvedType, TRUE),
                                        Tail(tvs))

\* Faulty variant: finalize records the score of every solution as the best.
finalizeStateRecordingEveryScore(s) ==
    bindFreeTypeVariables([s EXCEPT !.BestScore = <<s.CurrentScore>>], s.TypeVariables)

\* finalize: create the solution with the current score, update the best
\* score, bind the free type variables and copy the system's records.
finalizeState(s) ==
    LET s1 == IF s.BestScore = <<>> \/ ScoreLessEq(s.CurrentScore, s.BestScore[1])
              THEN [s EXCEPT !.BestScore = <<s.CurrentScore>>] ELSE s
    IN  bindFreeTypeVariables(s1, s1.TypeVariables)

finalizeSolution(s) ==
    LET f == finalizeState(s)
    IN  [score |-> s.CurrentScore,
         typeBindings |-> [i \in 1..Len(f.TypeVariables) |->
                              getFixedType(f, f.TypeVariables[i])],
         overloadChoices |-> f.ResolvedOverloads,
         Fixes |-> f.Fixes,
         DisjunctionChoices |-> f.DisjunctionChoices,
         OpenedTypes |-> f.OpenedTypes,
         pass |-> stage,
         bestBefore |-> s.BestScore]

\* ------------------------------------------------------------ the search
\* A solver step on the work list.
Step(kind, state, disjunction, position, index, anySolved) ==
    [kind |-> kind, state |-> state, disjunction |-> disjunction,
     position |-> position, index |-> index, anySolved |-> anySolved]
SplitterStep == Step("Splitter", "Setup", <<>>, 0, 0, FALSE)
DisjunctionStep(disjunction, position) ==
    Step("Disjunction", "Setup", <<disjunction>>, position, 0, FALSE)

\* The number of nested constraints that are not disabled.
countActiveNestedConstraints(c) ==
    Cardinality({i \in 1..Len(c.alts) : ~isDisabled(c.alts[i])})

\* collectDisjunctions: the positions of the inactive disjunctions.
collectDisjunctions(s) ==
    {i \in 1..Len(s.InactiveConstraints) : s.InactiveConstraints[i].kind = "Disjunction"}

\* The type variable a type variable simplifies to, or None when it has a
\* fixed type.
getAsTypeVar(s, tv) ==
    IF getFixedType(s, tv) = NoType THEN getRepresentative(s, tv) ELSE None

\* selectBestBindingDisjunction: among the disjunctions whose first choice
\* binds a type variable, the first whose variable is the right-hand side
\* of a conversion constraint of its equivalence class; failing that, the
\* first binding disjunction; None when there is no binding disjunction.
selectBestBindingDisjunction(s, disjunctions) ==
    LET list == s.InactiveConstraints
        typeVar(i) == getAsTypeVar(s, list[i].tv)
        binding == {i \in disjunctions :
                       list[i].alts[1].kind = "Bind" /\ typeVar(i) # None}
        constraints(i) ==
            {c \in Range(s.ActiveConstraints) \cup Range(s.InactiveConstraints) :
                c.kind = "Conversion"
                    /\ Mentions(c) \cap EquivalenceClass(s, typeVar(i)) # {}}
        converted == {i \in binding :
                         \E c \in constraints(i) : getAsTypeVar(s, c.tv2) = typeVar(i)}
    IN  IF disjunctions = {} THEN None
        ELSE IF converted # {} THEN CHOOSE i \in converted : \A j \in converted : i <= j
        ELSE IF binding # {} THEN CHOOSE i \in binding : \A j \in binding : i <= j
        ELSE None

\* The selection of a faulty solver that never looks for a binding
\* disjunction.
selectDisjunctionBySizeOnly(s) ==
    LET list == s.InactiveConstraints
        disjunctions == collectDisjunctions(s)
    IN  IF disjunctions = {} THEN None
        ELSE CHOOSE i \in disjunctions :
                 \A j \in disjunctions :
                     \/ countActiveNestedConstraints(list[i])
                            < countActiveNestedConstraints(list[j])
                     \/ /\ countActiveNestedConstraints(list[i])
                               = countActiveNestedConstraints(list[j])
                        /\ i <= j

\* selectDisjunction: the position in the inactive list of the best binding
\* disjunction if there is one, otherwise of the disjunction with the
\* smallest number of active choices (the first such), or None.
selectDisjunction(s) ==
    LET list == s.InactiveConstraints
        disjunctions == collectDisjunctions(s)
    IN  IF disjunctions = {} THEN None
        ELSE IF selectBestBindingDisjunction(s, disjunctions) # None
        THEN selectBestBindingDisjunction(s, disjunctions)
        ELSE CHOOSE i \in disjunctions :
                 \A j \in disjunctions :
                     \/ countActiveNestedConstraints(list[i])
                            < countActiveNestedConstraints(list[j])
                     \/ /\ countActiveNestedConstraints(list[i])
                               = countActiveNestedConstraints(list[j])
                        /\ i <= j

\* ------------------------------------------------------------- filtering
\* SolverState::disableContraint / Constraint::setDisabled, for each of a set
\* of nested constraints.
\* The solver state, when there is one, records each constraint it disables.
disableEach(s, position, indices) ==
    LET disjunction == s.InactiveConstraints[position]
        recorded == [k \in 1..Len(disjunction.alts) |->
                         [locator |-> disjunction.id, index |-> k]]
    IN  [s EXCEPT !.InactiveConstraints[position].alts =
                      [i \in DOMAIN @ |-> IF i \in indices
                                          THEN [@[i] EXCEPT !.disabled = TRUE] ELSE @[i]],
                  !.disabledConstraints =
                      IF s.solverState
                      THEN @ \o SelectSeq(recorded, LAMBDA d : d.index \in indices)
                      ELSE @]

\* Constraint::setEnabled, for each of a set of nested constraints.
enableEach(s, position, indices) ==
    [s EXCEPT !.InactiveConstraints[position].alts =
                  [i \in DOMAIN @ |-> IF i \in indices
                                      THEN [@[i] EXCEPT !.disabled = FALSE] ELSE @[i]]]

recordDisjunctionChoice(s, locator, index) ==
    [s EXCEPT !.DisjunctionChoices = Append(@, [locator |-> locator, index |-> index])]

\* The phase of the system is ConstraintGeneration until solveImpl sets up
\* the solver state.
inConstraintGeneration(s) == ~s.solverState

\* A faulty filter: the single remaining choice is simplified in place but
\* the disjunction stays in the system.
filterDisjunctionKeepingDisjunction(s, position, restoreOnFail, pred) ==
    LET disjunction == s.InactiveConstraints[position]
        alts == disjunction.alts
        considered == {i \in 1..Len(alts) : ~(isDisabled(alts[i]) /\ ~getFix(alts[i]))}
        enabledTerms == {i \in considered : pred[alts[i].ty]}
        disabledNow == considered \ enabledTerms
        s1 == disableEach(s, position, disabledNow)
        choiceIdx == MaxOf(enabledTerms)
        s3 == recordDisjunctionChoice(s1, disjunction.id, choiceIdx)
        s4 == simplifyDisjunctionChoice(s3, disjunction, choiceIdx)
    IN  IF Cardinality(enabledTerms) = 0
        THEN Result("Error", IF restoreOnFail THEN enableEach(s1, position, disabledNow) ELSE s1)
        ELSE IF Cardinality(enabledTerms) = 1
        THEN Result(IF s4.failedConstraint # None THEN "Unsolved" ELSE "Solved", s4)
        ELSE Result("Unsolved", s1)

\* A faulty filter: the single remaining choice is simplified in place but
\* the choice made is not noted.
filterDisjunctionForgettingChoice(s, position, restoreOnFail, pred) ==
    LET disjunction == s.InactiveConstraints[position]
        alts == disjunction.alts
        considered == {i \in 1..Len(alts) : ~(isDisabled(alts[i]) /\ ~getFix(alts[i]))}
        enabledTerms == {i \in considered : pred[alts[i].ty]}
        disabledNow == considered \ enabledTerms
        s1 == disableEach(s, position, disabledNow)
        choiceIdx == MaxOf(enabledTerms)
        s2 == retireConstraint(s1, s1.InactiveConstraints[position])
        s4 == simplifyDisjunctionChoice(s2, disjunction, choiceIdx)
    IN  IF Cardinality(enabledTerms) = 0
        THEN Result("Error", IF restoreOnFail THEN enableEach(s1, position, disabledNow) ELSE s1)
        ELSE IF Cardinality(enabledTerms) = 1
        THEN Result(IF s4.failedConstraint # None THEN "Unsolved" ELSE "Solved", s4)
        ELSE Result("Unsolved", s1)

\* filterDisjunction: disable the nested constraints the predicate rejects
\* (already-disabled ones are skipped, unless they carry a fix); with no
\* term left, re-enable what is to be restored and fail; with a single term
\* left, retire the disjunction, note the choice and simplify it in place
\* (a key path dynamic member lookup choice is not attempted in place: the
\* disjunction is kept with every other choice disabled); with more terms
\* left the disjunction stays unsolved.  The predicate is tabulated over the
\* types of the choices.
filterDisjunction(s, position, restoreOnFail, pred) ==
    LET disjunction == s.InactiveConstraints[position]
        alts == disjunction.alts
        considered == {i \in 1..Len(alts) : ~(isDisabled(alts[i]) /\ ~getFix(alts[i]))}
        enabledTerms == {i \in considered : pred[alts[i].ty]}
        numEnabledTerms == Cardinality(enabledTerms)
        disabledNow == considered \ enabledTerms
        s1 == disableEach(s, position, disabledNow)
        choiceIdx == MaxOf(enabledTerms)
        choice == alts[choiceIdx]
        \* Retire the disjunction.  It's been solved.
        s2 == retireConstraint(s1, s1.InactiveConstraints[position])
        \* Note the choice we made and simplify it.
        s3 == recordDisjunctionChoice(s2, disjunction.id, choiceIdx)
        s4 == simplifyDisjunctionChoice(s3, disjunction, choiceIdx)
    IN  IF numEnabledTerms = 0
        THEN Result("Error", IF restoreOnFail THEN enableEach(s1, position, disabledNow) ELSE s1)
        ELSE IF numEnabledTerms = 1
        THEN IF choice.keyPathDynamicMemberLookup
             THEN IF inConstraintGeneration(s) THEN Result("Unsolved", s1)
                  ELSE Result("Solved",
                              disableEach(s1, position, (1..Len(alts)) \ {choiceIdx}))
             ELSE Result(IF s4.failedConstraint # None THEN "Unsolved" ELSE "Solved", s4)
        ELSE Result("Unsolved", s1)

getExpressionTooComplex == timedOut

Top == Last(workList)
ReplaceTop(step) == [workList EXCEPT ![Len(workList)] = step]
PopStep == Prefix(workList, Len(workList) - 1)
\* simplify has returned: with a failure, or with nothing left to simplify.
InSimplify == pc \in {"simplify", "simplifying"}
SimplifyReturned ==
    \/ pc = "simplifyFailed"
    \/ InSimplify /\ cs.ActiveConstraints = <<>>
SimplifyFailed == pc = "simplifyFailed"

\* --------------------------------------------------------------- actions
\* solve, stage 0: solveImpl(target) generates the constraints (done in
\* the initial state) and sets up the solver state of the first attempt.
SolveEntry ==
    /\ pc = "solve"
    /\ stage = 0
    /\ IF problem.generationFails
       THEN /\ passResult' = "Error"
            /\ pc' = "dispatch"
            /\ cs' = cs
       ELSE /\ cs' = attachSolverState(cs, problem.allowFreeTypeVariables, FALSE)
            /\ pc' = "solveImpl"
            /\ passResult' = passResult
    /\ UNCHANGED <<problem, workList, prevFailed, solutions, stage, returned, timedOut>>

\* Faulty variant: solveImpl opens its scope even though constraint
\* generation failed.
SolveImplEntryIgnoringFailure ==
    /\ pc = "solveImpl"
    /\ cs' = pushScope(cs)
    /\ workList' = <<SplitterStep>>
    /\ prevFailed' = FALSE
    /\ pc' = "advance"
    /\ UNCHANGED <<problem, solutions, stage, passResult, returned, timedOut>>

\* solveImpl(solutions): give up at once if generation failed, otherwise
\* open the outermost scope and start from the step wrapping the system.
SolveImplEntry ==
    /\ pc = "solveImpl"
    /\ IF cs.failedConstraint # None
       THEN /\ pc' = "solved"
            /\ UNCHANGED <<cs, workList, prevFailed>>
       ELSE /\ cs' = pushScope(cs)
            /\ workList' = <<SplitterStep>>
            /\ prevFailed' = FALSE
            /\ pc' = "advance"
    /\ UNCHANGED <<problem, solutions, stage, passResult, returned, timedOut>>

\* The step wrapping the system is taken: it begins by simplifying.
SplitterTake ==
    /\ pc = "advance"
    /\ workList # <<>>
    /\ Top.kind = "Splitter"
    /\ Top.state = "Setup"
    /\ workList' = ReplaceTop([Top EXCEPT !.state = "Running"])
    /\ pc' = "simplify"
    /\ UNCHANGED <<problem, cs, prevFailed, solutions, stage, passResult, returned, timedOut>>

\* One iteration of the loop of simplify: the constraint at the front of
\* the worklist is deactivated, simplified, and retired unless Unsolved.
simplifyFront(s) ==
    LET constraint == Head(s.ActiveConstraints)
        s1 == deactivateConstraint(s, constraint)
        r == simplifyConstraint(s1, constraint)
    IN  CASE r.kind = "Error" -> retireFailedConstraint(r.s, constraint)
          [] r.kind = "Solved" -> retireConstraint(r.s, constraint)
          [] r.kind = "Unsolved" -> r.s

\* A faulty simplify: with nothing on the worklist it puts the inactive
\* constraints back on it.
simplifyRevisiting(s, ContinueAfterFailures) ==
    [failed |-> FALSE, s |-> activateAll(s, s.InactiveConstraints)]

\* simplify as a whole: process the worklist until it is empty, a constraint
\* has failed (unless asked to continue after failures) or the score is
\* worse than the best; the result tells whether it stopped early.
RECURSIVE simplify(_, _)
simplify(s, ContinueAfterFailures) ==
    IF s.ActiveConstraints = <<>> THEN [failed |-> FALSE, s |-> s]
    ELSE LET s1 == simplifyFront(s)
         IN  IF s1.failedConstraint # None /\ ~ContinueAfterFailures
             THEN [failed |-> TRUE, s |-> s1]
             ELSE IF worseThanBestSolution(s1) THEN [failed |-> TRUE, s |-> s1]
             ELSE simplify(s1, ContinueAfterFailures)

\* Faulty variant: simplify does not compare the score with the best.
SimplifyStepWithoutPruning ==
    /\ pc \in {"simplify", "simplifying"}
    /\ cs.ActiveConstraints # <<>>
    /\ cs' = simplifyFront(cs)
    /\ pc' = IF cs'.failedConstraint # None THEN "simplifyFailed" ELSE "simplifying"
    /\ UNCHANGED <<problem, workList, prevFailed, solutions, stage, passResult, returned, timedOut>>

\* Faulty variant: simplify also abandons a branch whose score equals the
\* best.
SimplifyStepAbandoningTies ==
    /\ InSimplify
    /\ cs.ActiveConstraints # <<>>
    /\ cs' = simplifyFront(cs)
    /\ pc' = IF cs'.failedConstraint # None THEN "simplifyFailed"
             ELSE IF noBetterThanBestSolution(cs') THEN "simplifyFailed"
             ELSE "simplifying"
    /\ UNCHANGED <<problem, workList, prevFailed, solutions, stage, passResult, returned, timedOut>>

\* Faulty variant: simplify abandons a branch whose score is better than the
\* best, the comparison being the wrong way round.
SimplifyStepAbandoningBetter ==
    /\ InSimplify
    /\ cs.ActiveConstraints # <<>>
    /\ cs' = simplifyFront(cs)
    /\ pc' = IF cs'.failedConstraint # None THEN "simplifyFailed"
             ELSE IF betterThanBestSolution(cs') THEN "simplifyFailed"
             ELSE "simplifying"
    /\ UNCHANGED <<problem, workList, prevFailed, solutions, stage, passResult, returned, timedOut>>

\* simplify is entered at pc "simplify"; after an iteration it goes on, at
\* "simplifying", unless a constraint failed or the score is worse than the
\* best.
\* Faulty variant: simplify carries on past a failed constraint, as if asked
\* to continue after failures.
SimplifyStepContinuingAfterFailures ==
    /\ InSimplify
    /\ cs.ActiveConstraints # <<>>
    /\ cs' = simplifyFront(cs)
    /\ pc' = IF worseThanBestSolution(cs') THEN "simplifyFailed" ELSE "simplifying"
    /\ UNCHANGED <<problem, workList, prevFailed, solutions, stage, passResult, returned, timedOut>>

SimplifyStep ==
    /\ InSimplify
    /\ cs.ActiveConstraints # <<>>
    /\ cs' = simplifyFront(cs)
    /\ pc' = IF cs'.failedConstraint # None THEN "simplifyFailed"
             ELSE IF worseThanBestSolution(cs') THEN "simplifyFailed"
             ELSE "simplifying"
    /\ UNCHANGED <<problem, workList, prevFailed, solutions, stage, passResult, returned, timedOut>>

\* Faulty variant: a new solution takes the place of those produced before.
SplitterAfterSimplifyKeepingLatest ==
    /\ SimplifyReturned
    /\ Top.kind = "Splitter"
    /\ Top.state = "Running"
    /\ LET position == selectDisjunction(cs)
       IN  IF SimplifyFailed \/ getExpressionTooComplex
           THEN /\ workList' = PopStep
                /\ prevFailed' = TRUE
                /\ UNCHANGED <<cs, solutions>>
           ELSE IF position # None
           THEN /\ cs' = [cs EXCEPT !.InactiveConstraints = RemoveAt(@, position)]
                /\ workList' = Append(ReplaceTop([Top EXCEPT !.state = "Suspended"]),
                                      DisjunctionStep(cs.InactiveConstraints[position],
                                                      position))
                /\ prevFailed' = FALSE
                /\ UNCHANGED solutions
           ELSE IF \/ cs.AllowFreeTypeVariables = "Disallow" /\ hasFreeTypeVariables(cs)
                   \/ worseThanBestSolution(cs)
           THEN /\ workList' = PopStep
                /\ prevFailed' = TRUE
                /\ UNCHANGED <<cs, solutions>>
           ELSE /\ solutions' = <<finalizeSolution(cs)>>
                /\ cs' = finalizeState(cs)
                /\ workList' = PopStep
                /\ prevFailed' = FALSE
    /\ pc' = "advance"
    /\ UNCHANGED <<problem, stage, passResult, returned, timedOut>>

\* The step wrapping the system, after simplify: fail, branch on a
\* disjunction, or finalize the leaf into a solution.
SplitterAfterSimplify ==
    /\ SimplifyReturned
    /\ Top.kind = "Splitter"
    /\ Top.state = "Running"
    /\ LET position == selectDisjunction(cs)
       IN  IF SimplifyFailed \/ getExpressionTooComplex
           THEN /\ workList' = PopStep
                /\ prevFailed' = TRUE
                /\ UNCHANGED <<cs, solutions>>
           ELSE IF position # None
           THEN /\ cs' = [cs EXCEPT !.InactiveConstraints = RemoveAt(@, position)]
                /\ workList' = Append(ReplaceTop([Top EXCEPT !.state = "Suspended"]),
                                      DisjunctionStep(cs.InactiveConstraints[position],
                                                      position))
                /\ prevFailed' = FALSE
                /\ UNCHANGED solutions
           ELSE IF \/ cs.AllowFreeTypeVariables = "Disallow" /\ hasFreeTypeVariables(cs)
                   \/ worseThanBestSolution(cs)
           THEN /\ workList' = PopStep
                /\ prevFailed' = TRUE
                /\ UNCHANGED <<cs, solutions>>
           ELSE /\ solutions' = Append(solutions, finalizeSolution(cs))
                /\ cs' = finalizeState(cs)
                /\ workList' = PopStep
                /\ prevFailed' = FALSE
    /\ pc' = "advance"
    /\ UNCHANGED <<problem, stage, passResult, returned, timedOut>>

\* The suspended step wrapping the system is resumed after its followup.
SplitterResume ==
    /\ pc = "advance"
    /\ workList # <<>>
    /\ Top.kind = "Splitter"
    /\ Top.state = "Suspended"
    /\ workList' = PopStep
    /\ UNCHANGED <<problem, cs, prevFailed, solutions, pc, stage, passResult, returned, timedOut>>

\* The disjunction step attempts its next alternative in a fresh scope, or
\* with none left puts the disjunction back and is done.
DisjunctionTake ==
    /\ pc = "advance"
    /\ workList # <<>>
    /\ Top.kind = "Disjunction"
    /\ Top.state \in {"Setup", "Ready"}
    /\ LET disjunction == Top.disjunction[1]
           index == Top.index + 1
           s1 == pushScope(cs)
           s2 == [s1 EXCEPT !.DisjunctionChoices =
                                Append(@, [locator |-> disjunction.id, index |-> index])]
           s3 == simplifyDisjunctionChoice(s2, disjunction, index)
       IN  IF index > Len(disjunction.alts) \/ getExpressionTooComplex
           THEN /\ cs' = [cs EXCEPT !.InactiveConstraints =
                                        InsertAt(@, Top.position, disjunction)]
                /\ workList' = PopStep
                /\ prevFailed' = ~Top.anySolved
                /\ pc' = "advance"
           ELSE IF s3.failedConstraint # None
           THEN /\ cs' = popScope(s3)
                /\ workList' = ReplaceTop([Top EXCEPT !.state = "Ready", !.index = index])
                /\ pc' = "advance"
                /\ UNCHANGED prevFailed
           ELSE /\ cs' = s3
                /\ workList' = ReplaceTop([Top EXCEPT !.state = "Running", !.index = index])
                /\ pc' = "simplify"
                /\ UNCHANGED prevFailed
    /\ UNCHANGED <<problem, solutions, stage, passResult, returned, timedOut>>

\* Faulty variant: attempt reports the outcome of its simplify the wrong way
\* round.
AttemptAfterSimplifyInverted ==
    /\ SimplifyReturned
    /\ Top.kind = "Disjunction"
    /\ Top.state = "Running"
    /\ IF ~SimplifyFailed
       THEN /\ cs' = popScope(cs)
            /\ workList' = ReplaceTop([Top EXCEPT !.state = "Ready"])
       ELSE /\ cs' = cs
            /\ workList' = Append(ReplaceTop([Top EXCEPT !.state = "Suspended"]),
                                  SplitterStep)
    /\ pc' = "advance"
    /\ prevFailed' = FALSE
    /\ UNCHANGED <<problem, solutions, stage, passResult, returned, timedOut>>

\* DisjunctionChoice::attempt after its simplify: a failed attempt closes the
\* scope; a successful one leaves the rest of the system to a new step.
AttemptAfterSimplify ==
    /\ SimplifyReturned
    /\ Top.kind = "Disjunction"
    /\ Top.state = "Running"
    /\ IF SimplifyFailed
       THEN /\ cs' = popScope(cs)
            /\ workList' = ReplaceTop([Top EXCEPT !.state = "Ready"])
       ELSE /\ cs' = cs
            /\ workList' = Append(ReplaceTop([Top EXCEPT !.state = "Suspended"]),
                                  SplitterStep)
    /\ pc' = "advance"
    /\ prevFailed' = FALSE
    /\ UNCHANGED <<problem, solutions, stage, passResult, returned, timedOut>>

\* Faulty variant: the resumed disjunction step takes the alternative to
\* have led to a solution whatever the step before it returned.
DisjunctionResumeDisregardingFailure ==
    /\ pc = "advance"
    /\ workList # <<>>
    /\ Top.kind = "Disjunction"
    /\ Top.state = "Suspended"
    /\ cs' = popScope(cs)
    /\ workList' = ReplaceTop([Top EXCEPT !.state = "Ready", !.anySolved = TRUE])
    /\ UNCHANGED <<problem, prevFailed, solutions, pc, stage, passResult, returned, timedOut>>

\* The disjunction step is resumed: note whether the alternative led to a
\* solution and close its scope.
DisjunctionResume ==
    /\ pc = "advance"
    /\ workList # <<>>
    /\ Top.kind = "Disjunction"
    /\ Top.state = "Suspended"
    /\ cs' = popScope(cs)
    /\ workList' = ReplaceTop([Top EXCEPT !.state = "Ready",
                                          !.anySolved = @ \/ ~prevFailed])
    /\ UNCHANGED <<problem, prevFailed, solutions, pc, stage, passResult, returned, timedOut>>

\* Faulty variant: solveImpl returns with its outermost scope still open.
SolveImplExitLeavingScope ==
    /\ pc = "advance"
    /\ workList = <<>>
    /\ pc' = "solved"
    /\ UNCHANGED <<problem, cs, workList, prevFailed, solutions, stage, passResult, returned, timedOut>>

\* solveImpl(solutions) returns: its outermost scope goes out of scope.
SolveImplExit ==
    /\ pc = "advance"
    /\ workList = <<>>
    /\ cs' = popScope(cs)
    /\ pc' = "solved"
    /\ UNCHANGED <<problem, workList, prevFailed, solutions, stage, passResult, returned, timedOut>>

\* solve(solutions, allow) and solveImpl(target) after the search: filter the
\* solutions, let go of the solver state and classify the outcome.
FinishFirstAttempt ==
    /\ pc = "solved"
    /\ stage = 0
    /\ solutions' = filterSolutions(solutions)
    /\ cs' = detachSolverState(cs)
    /\ passResult' = IF getExpressionTooComplex THEN "TooComplex"
                     ELSE IF Len(solutions') = 0 THEN "UndiagnosedError"
                     ELSE IF Len(solutions') = 1 THEN "Success"
                     ELSE "Ambiguous"
    /\ pc' = "dispatch"
    /\ UNCHANGED <<problem, workList, prevFailed, stage, returned, timedOut>>

\* Faulty variant: the successful solution of the salvage stage is dropped.
solveOutcomeDiscardingSalvage(kind, stg) ==
    CASE kind = "Success" /\ stg = 0 -> "one"
      [] kind = "Success" /\ stg = 1 -> "none"
      [] kind \in {"Error", "TooComplex"} -> "none"
      [] kind = "Ambiguous" /\ stg = 1 -> "none"
      [] kind = "Ambiguous" /\ stg = 0 /\ problem.AllowUnresolvedTypeVariables -> "all"
      [] OTHER -> IF problem.suppressDiagnostics \/ stg = 1 THEN "none" ELSE "salvage"

\* Faulty variant: the ambiguous solutions of the first stage are handed
\* back whatever the options.
solveOutcomeAllAmbiguous(kind, stg) ==
    CASE kind = "Success" -> "one"
      [] kind \in {"Error", "TooComplex"} -> "none"
      [] kind = "Ambiguous" /\ stg = 1 -> "none"
      [] kind = "Ambiguous" /\ stg = 0 -> "all"
      [] OTHER -> IF problem.suppressDiagnostics \/ stg = 1 THEN "none" ELSE "salvage"

\* Faulty variant: an ambiguous first attempt does not fall through to the
\* undiagnosed case, and so never reaches salvage.
solveOutcomeWithoutFallthrough(kind, stg) ==
    CASE kind = "Success" -> "one"
      [] kind \in {"Error", "TooComplex"} -> "none"
      [] kind = "Ambiguous" /\ stg = 1 -> "none"
      [] kind = "Ambiguous" /\ stg = 0 /\ problem.AllowUnresolvedTypeVariables -> "all"
      [] kind = "Ambiguous" -> "none"
      [] OTHER -> IF problem.suppressDiagnostics \/ stg = 1 THEN "none" ELSE "salvage"

\* solve: what the switch over the outcome of a stage does: hand back the
\* one solution, none, all the ambiguous ones, or go on to salvage.
solveOutcome(kind, stg) ==
    CASE kind = "Success" -> "one"
      [] kind \in {"Error", "TooComplex"} -> "none"
      [] kind = "Ambiguous" /\ stg = 1 -> "none"
      [] kind = "Ambiguous" /\ stg = 0 /\ problem.AllowUnresolvedTypeVariables -> "all"
      [] OTHER -> IF problem.suppressDiagnostics \/ stg = 1 THEN "none" ELSE "salvage"

SolveDispatch ==
    /\ pc = "dispatch"
    /\ LET outcome == solveOutcome(passResult, stage)
       IN  IF outcome = "salvage"
           THEN /\ stage' = 1
                /\ pc' = "salvage"
                /\ UNCHANGED returned
           ELSE /\ returned' =
                       CASE outcome = "one" -> [value |-> "Some", solutions |-> <<solutions[1]>>]
                         [] outcome = "all" -> [value |-> "Some", solutions |-> solutions]
                         [] outcome = "none" -> [value |-> "None", solutions |-> <<>>]
                /\ pc' = "done"
                /\ UNCHANGED stage
    /\ UNCHANGED <<problem, cs, workList, prevFailed, solutions, passResult, timedOut>>

\* salvage: solve again with a solver state that records fixes.
SalvageEntry ==
    /\ pc = "salvage"
    /\ solutions' = <<>>
    /\ cs' = [attachSolverState(cs, "Disallow", TRUE) EXCEPT !.lastPop = <<>>]
    /\ pc' = "solveImpl"
    /\ UNCHANGED <<problem, workList, prevFailed, stage, passResult, returned, timedOut>>

hasFixes(sol) == sol.Fixes # <<>>

\* diagnoseAmbiguityWithFixes up to its diagnostics: the solutions it
\* keeps, and whether it may report an ambiguity at all.
keptByBestScore(s, viable) ==
    IF s.BestScore = <<>> THEN viable
    ELSE SelectSeq(viable, LAMBDA sol : ~ScoreLess(s.BestScore[1], sol.score))

mayDiagnoseAmbiguityWithFixes(s, viable) ==
    LET kept == keptByBestScore(s, viable)
    IN  /\ viable # <<>>
        /\ ~(s.BestScore # <<>>
             /\ \A i \in 1..Len(kept) : kept[i].score[SK_Fix] = 0 /\ ~hasFixes(kept[i]))
        /\ Len(kept) >= 2

\* salvage after its search.
FinishSalvage ==
    /\ pc = "solved"
    /\ stage = 1
    /\ \E conflicting, diagnosed, ambiguity \in BOOLEAN :
          LET kept == keptByBestScore(cs, solutions)
              withFixes == (solutions # <<>> /\ conflicting)
                              \/ (mayDiagnoseAmbiguityWithFixes(cs, solutions) /\ diagnosed)
              viable == IF solutions # <<>> /\ conflicting THEN solutions ELSE kept
              best == findBestSolution(viable)
              unfixed == SelectSeq(viable, LAMBDA sol : ~hasFixes(sol))
          IN  IF withFixes
              THEN /\ solutions' = viable
                   /\ passResult' = "Ambiguous"
              ELSE IF best # None
              THEN /\ solutions' = <<viable[best]>>
                   /\ passResult' = "Success"
              ELSE IF Len(unfixed) > 1 /\ ambiguity
              THEN /\ solutions' = unfixed
                   /\ passResult' = "Ambiguous"
              ELSE /\ solutions' = unfixed
                   /\ passResult' = IF getExpressionTooComplex THEN "TooComplex"
                                    ELSE "UndiagnosedError"
    /\ cs' = detachSolverState(cs)
    /\ pc' = "dispatch"
    /\ UNCHANGED <<problem, workList, prevFailed, stage, returned, timedOut>>

\* applySolution: add the solution's score, bind the type variables it
\* solved that have no fixed type yet, and register its records.
RECURSIVE applyBindings(_, _, _)
applyBindings(s, typeBindings, i) ==
    IF i > Len(typeBindings) THEN s
    ELSE LET s1 == IF i > Len(s.TypeVariables)
                   THEN [s EXCEPT !.TypeVariables = Append(@, i)] ELSE s
             s2 == IF getFixedType(s1, i) = NoType /\ typeBindings[i] # NoType
                   THEN assignFixedType(s1, i, typeBindings[i], FALSE) ELSE s1
         IN  applyBindings(s2, typeBindings, i + 1)

\* ResolvedOverloads.insert for each overload of a solution: a locator that
\* already has a record keeps it.
RECURSIVE insertOverloads(_, _)
insertOverloads(resolved, overloads) ==
    IF overloads = <<>> THEN resolved
    ELSE LET overload == Head(overloads)
             present == \E i \in 1..Len(resolved) : resolved[i].locator = overload.locator
         IN  insertOverloads(IF present THEN resolved ELSE Append(resolved, overload),
                             Tail(overloads))

applySolution(s, solution) ==
    LET s1 == [s EXCEPT !.CurrentScore = [k \in 1..3 |-> @[k] + solution.score[k]]]
        s2 == applyBindings(s1, solution.typeBindings, 1)
    IN  [s2 EXCEPT !.ResolvedOverloads = insertOverloads(@, solution.overloadChoices),
                   !.DisjunctionChoices = @ \o solution.DisjunctionChoices,
                   !.OpenedTypes = @ \o solution.OpenedTypes,
                   !.Fixes = @ \o solution.Fixes]

\* The client applies the solution solve handed back to the system.
ApplySolution ==
    /\ pc = "done"
    /\ returned.value = "Some"
    /\ cs' = applySolution(cs, returned.solutions[1])
    /\ pc' = "applied"
    /\ UNCHANGED <<problem, workList, prevFailed, solutions, stage, passResult, returned, timedOut>>

\* The expression timer or memory budget runs out.
TimerExpires ==
    /\ problem.timer
    /\ ~timedOut
    /\ pc \notin {"solve", "done", "applied"}
    /\ timedOut' = TRUE
    /\ UNCHANGED <<problem, cs, workList, prevFailed, solutions, pc, stage, passResult, returned>>

\* ------------------------------------------------------------------ spec
\* The type variables constraint generation created.
numTypeVariables(list) ==
    MaxOf({1} \cup UNION {Mentions(list[i]) : i \in 1..Len(list)})

\* The expressions solved: every overload-set list with every link under the
\* default options; every option with the lists of at most one overload set,
\* unlinked or equated to a further variable; and the placeholder policy with
\* every unlinked list.
OptionsFor(d, l) ==
    IF Len(d) <= 1 /\ l \in {NoLink, EqualLink} THEN Options
    ELSE IF l = NoLink THEN {DefaultOption, PlaceholderOption}
    ELSE {DefaultOption}
Problems ==
    UNION {{[constraints |-> GenerationOrder(d, l)] @@ o : o \in OptionsFor(d, l)} :
              d \in DisjunctionLists, l \in LinkChoices}

\* The constraint system as constraint generation leaves it.
GeneratedSystem ==
    generateConstraints(EmptySystem(numTypeVariables(problem.constraints)),
                        problem.constraints)

Init ==
    /\ problem \in Problems
    /\ cs = GeneratedSystem
    /\ workList = <<>>
    /\ prevFailed = FALSE
    /\ solutions = <<>>
    /\ pc = "solve"
    /\ stage = 0
    /\ passResult = "none"
    /\ returned = [value |-> "pending", solutions |-> <<>>]
    /\ timedOut = FALSE

Next ==
    \/ SolveEntry
    \/ SolveImplEntry
    \/ SplitterTake
    \/ SimplifyStep
    \/ SplitterAfterSimplify
    \/ SplitterResume
    \/ DisjunctionTake
    \/ AttemptAfterSimplify
    \/ DisjunctionResume
    \/ SolveImplExit
    \/ FinishFirstAttempt
    \/ SolveDispatch
    \/ SalvageEntry
    \/ FinishSalvage
    \/ ApplySolution
    \/ TimerExpires

Spec == Init /\ [][Next]_vars

\* ------------------------------------------- filtering and selection alone
\* A second specification: filterDisjunction and selectDisjunction applied to
\* generated systems whose disjunctions have disabled, fix-carrying, key path
\* and type-variable-binding alternatives.
Disabled(choice) == [choice EXCEPT !.disabled = TRUE]
DisabledWithFix(choice) == [choice EXCEPT !.disabled = TRUE, !.fix = TRUE]
FilterShapes ==
    {Decl("Int", FALSE, FALSE), Decl("String", FALSE, FALSE),
     Disabled(Decl("Int", FALSE, FALSE)),
     DisabledWithFix(Decl("String", FALSE, FALSE)),
     KeyPathChoice("Int")}
\* A disjunction of pure type variable bindings, one per type in turn.
BindAlts == [i \in 1..NumAlts |-> BindChoice(PlainAlts[i].ty)]
\* An overload set whose last alternative is disabled.
ShortAlts == [i \in 1..NumAlts |-> IF i = NumAlts THEN Disabled(PlainAlts[i])
                                   ELSE PlainAlts[i]]

\* Expressions to filter: a first overload set over all shapes, further plain
\* overload sets, the first type variable bound beforehand or not, during
\* constraint generation or while solving, under the default options.
FilterProblems ==
    {[constraints |-> GenerationOrder([k \in 1..n |-> IF k = 1 THEN a ELSE PlainAlts], l),
      solving |-> g] @@ DefaultOption :
        n \in 1..MaxDisj, a \in [1..NumAlts -> FilterShapes],
        l \in {NoLink, Link(TRUE, <<BindC(LinkId, 1, "Int")>>)}, g \in BOOLEAN}

\* Expressions to select in: binding disjunctions and overload sets of
\* different sizes, with a conversion to or from one of their variables.
ConversionLinks(n) ==
    {NoLink, Link(FALSE, <<ConversionC(LinkId, 1, LinkId)>>)}
        \cup {Link(FALSE, <<ConversionC(LinkId, LinkId, k)>>) : k \in 1..n}
SelectProblems ==
    UNION {{[constraints |-> GenerationOrder(d, l), solving |-> TRUE] @@ DefaultOption :
               d \in [1..n -> {PlainAlts, ShortAlts, BindAlts}], l \in ConversionLinks(n)} :
              n \in 1..MaxDisj}

DisjunctionInit ==
    /\ problem \in FilterProblems \cup SelectProblems
    /\ cs = IF problem.solving THEN attachSolverState(GeneratedSystem, "Disallow", FALSE)
            ELSE GeneratedSystem
    /\ workList = <<>>
    /\ prevFailed = FALSE
    /\ solutions = <<>>
    /\ pc = "disjunctions"
    /\ stage = 0
    /\ passResult = "none"
    /\ returned = [value |-> "pending", solutions |-> <<>>]
    /\ timedOut = FALSE

\* The call of filterDisjunction, as the simplification of an applicable
\* function constraint makes it: the arguments are kept with the result.
FilterCall(position, restoreOnFail, pred) ==
    [kind |-> "Filter", position |-> position, restoreOnFail |-> restoreOnFail,
     pred |-> pred]

FilterDisjunction ==
    /\ pc = "disjunctions"
    /\ \E position \in collectDisjunctions(cs), restoreOnFail \in BOOLEAN,
          pred \in [Types -> BOOLEAN] :
           LET r == filterDisjunction(cs, position, restoreOnFail, pred)
           IN  /\ cs' = r.s
               /\ passResult' = r.kind
               /\ workList' = <<FilterCall(position, restoreOnFail, pred)>>
    /\ pc' = "filtered"
    /\ UNCHANGED <<problem, prevFailed, solutions, stage, returned, timedOut>>

\* The search selects the disjunction to branch on and pushes its step.
SelectDisjunction ==
    /\ \/ pc = "disjunctions"
       \/ pc = "filtered" /\ passResult # "Error"
    /\ cs.failedConstraint = None
    /\ selectDisjunction(cs) # None
    /\ workList' = <<DisjunctionStep(cs.InactiveConstraints[selectDisjunction(cs)],
                                     selectDisjunction(cs))>>
    /\ pc' = "selected"
    /\ UNCHANGED <<problem, cs, prevFailed, solutions, stage, passResult, returned, timedOut>>

DisjunctionNext ==
    \/ FilterDisjunction
    \/ SelectDisjunction

DisjunctionSpec == DisjunctionInit /\ [][DisjunctionNext]_vars

\* ------------------------------------------------------------- shrinking
\* solveImpl(solutions) as a whole: the depth-first search of the steps, the
\* alternatives of a disjunction attempted in order, the best score carried
\* from each leaf to the branches attempted after it.
NoSolutions(s) == [solutions |-> <<>>, BestScore |-> s.BestScore]

\* Faulty variant: the alternatives are enumerated last declared first.
partitionDisjunctionReversed(Choices) ==
    [k \in 1..Len(Choices) |-> Len(Choices) + 1 - k]

\* partitionDisjunction: the order in which the alternatives are attempted:
\* partition by partition, in declaration order within each.  The modelled
\* declarations are neither favored, unavailable nor SIMD operators, so the
\* partitions are everything else, then the disabled alternatives.
partitionDisjunction(Choices) ==
    LET indices == [k \in 1..Len(Choices) |-> k]
        disabled == SelectSeq(indices, LAMBDA index : isDisabled(Choices[index]))
        everythingElse == SelectSeq(indices, LAMBDA index : ~isDisabled(Choices[index]))
    IN  everythingElse \o disabled

RECURSIVE solveFrom(_)
RECURSIVE attemptFrom(_, _, _)
\* (The result of simplify, and of each attempt, is bound as the element of a
\* one-element set, so that it is computed once.)
solveFrom(s) ==
    CHOOSE result \in
        {LET position == selectDisjunction(r.s)
             disjunction == r.s.InactiveConstraints[position]
             rest == [r.s EXCEPT !.InactiveConstraints = RemoveAt(@, position)]
         IN  IF r.failed THEN NoSolutions(s)
             ELSE IF position # None THEN attemptFrom(rest, disjunction, 1)
             ELSE IF \/ /\ r.s.AllowFreeTypeVariables = "Disallow"
                        /\ hasFreeTypeVariables(r.s)
                     \/ worseThanBestSolution(r.s)
             THEN NoSolutions(s)
             ELSE [solutions |-> <<finalizeSolution(r.s)>>,
                   BestScore |-> finalizeState(r.s).BestScore] :
           r \in {simplify(s, FALSE)}} : TRUE

attemptFrom(s, disjunction, next) ==
    IF next > Len(disjunction.alts) THEN NoSolutions(s)
    ELSE LET index == partitionDisjunction(disjunction.alts)[next]
             chosen == [s EXCEPT !.DisjunctionChoices =
                                     Append(@, [locator |-> disjunction.id,
                                                index |-> index])]
             attempt(s3) ==
                 IF isDisabled(disjunction.alts[index]) \/ s3.failedConstraint # None
                 THEN NoSolutions(s) ELSE solveFrom(s3)
         IN  CHOOSE result \in
                 UNION {{[solutions |-> first.solutions \o others.solutions,
                          BestScore |-> others.BestScore] :
                            others \in {attemptFrom([s EXCEPT !.BestScore = first.BestScore],
                                                    disjunction, next + 1)}} :
                           first \in {attempt(s3) :
                                         s3 \in {simplifyDisjunctionChoice(chosen, disjunction,
                                                                           index)}}} : TRUE

solveImpl(s) ==
    IF s.failedConstraint # None THEN <<>> ELSE solveFrom(s).solutions

\* An expression is its constraints in generation order; an overload set
\* reference is the disjunction generated for it, its declarations the
\* alternatives.  A candidate is a sub-expression: the constraints generated
\* for it.
Candidate(ids) == [kind |-> "Candidate", ids |-> ids]
OverloadSets(constraints) ==
    {constraints[i].id : i \in {j \in 1..Len(constraints) :
                                   constraints[j].kind = "Disjunction"}}
getDecls(constraints, OSR) ==
    (CHOOSE c \in Range(constraints) : c.id = OSR).alts
setDecls(constraints, OSR, decls) ==
    [i \in 1..Len(constraints) |->
        IF constraints[i].id = OSR THEN [constraints[i] EXCEPT !.alts = decls]
        ELSE constraints[i]]

\* ExprCollector: the original domain of every overload set reference the
\* walk comes to, and the candidates, innermost first.  The walk does not go
\* into a coercion: its overload set references get no recorded domain, and
\* each coercion with an overload set of its own (outside the coercions
\* nested in it) is a candidate, the nested ones first.  Otherwise the
\* candidates are the sub-expression with the overload sets when it has more
\* than one, then the primary expression when it is a function application
\* and there is another candidate.  coercions lists the constraints of each
\* coercion expression, innermost first.
collectDomains(constraints, coercions) ==
    LET beneath == UNION {coercions[k] : k \in 1..Len(coercions)}
    IN  [OSR \in OverloadSets(constraints) \ beneath |-> getDecls(constraints, OSR)]
collectCandidates(constraints, coercions, primaryIsApply) ==
    LET inner == IF Cardinality(OverloadSets(constraints)) > 1
                 THEN <<Candidate(OverloadSets(constraints))>> ELSE <<>>
        nested(k) == UNION {coercions[j] : j \in 1..(k - 1)}
        own(k) == (coercions[k] \ nested(k)) \cap OverloadSets(constraints)
        coerced == SelectSeq([k \in 1..Len(coercions) |-> k], LAMBDA k : own(k) # {})
    IN  IF coercions # <<>>
        THEN [k \in 1..Len(coerced) |-> Candidate(coercions[coerced[k]])]
        ELSE IF inner # <<>> /\ primaryIsApply
        THEN Append(inner, Candidate(Ids(constraints))) ELSE inner

\* Candidate::applySolutions: the declarations chosen in the solutions become
\* the domain of each overload set reference; nothing is reduced when a
\* chosen declaration is generic.
applySolutions(constraints, sols) ==
    LET choices == UNION {Range(sols[i].overloadChoices) : i \in 1..Len(sols)}
        touched == {c.locator : c \in choices} \cap OverloadSets(constraints)
        domain(OSR) == {c.choice : c \in {x \in choices : x.locator = OSR}}
        reduced(c) ==
            IF c.id \in touched /\ Len(c.alts) # Cardinality(domain(c.id))
            THEN [c EXCEPT !.alts = SelectSeq(@, LAMBDA decl : decl \in domain(c.id))]
            ELSE c
    IN  IF \E c \in choices : IsGeneric(c.choice) THEN constraints
        ELSE [i \in 1..Len(constraints) |-> reduced(constraints[i])]

\* Candidate::solve: a fresh constraint system for the sub-expression, solved
\* with free type variables allowed; the result tells whether there was no
\* solution.
candidateSystem(constraints, candidate) ==
    LET sub == SelectSeq(constraints, LAMBDA c : c.id \in candidate.ids)
    IN  generateConstraints(EmptySystem(numTypeVariables(sub)), sub)
candidateSolve(constraints, candidate, tooComplex) ==
    IF tooComplex
    THEN [failed |-> FALSE, constraints |-> constraints, solutions |-> <<>>,
          shrunk |-> {}]
    ELSE CHOOSE result \in
             {[failed |-> sols = <<>>,
               constraints |-> applySolutions(constraints, sols),
               solutions |-> sols,
               shrunk |-> {OSR \in OverloadSets(constraints) :
                              getDecls(applySolutions(constraints, sols), OSR)
                                  # getDecls(constraints, OSR)}] :
                 sols \in {solveImpl(attachSolverState(
                               candidateSystem(constraints, candidate),
                               "Allow", FALSE))}} : TRUE

\* shrink, after a candidate without solutions: the original domains of the
\* overload set references of its sub-expression are restored.
RECURSIVE restoreDomains(_, _, _)
restoreDomains(constraints, OSRs, domains) ==
    IF OSRs = {} THEN constraints
    ELSE LET OSR == CHOOSE x \in OSRs : TRUE
         IN  restoreDomains(setDecls(constraints, OSR, domains[OSR]),
                            OSRs \ {OSR}, domains)

\* A third specification: shrink applied to expressions whose overload sets
\* are in a sub-expression of their own, the further constraints coming from
\* the enclosing expression, which is a function application or not; and to
\* coercions: the first overload set reference coerced to a type, inside a
\* coercion of the expression with the further overload sets, which gives a
\* type to one of the references.  written keeps the expression as written,
\* shrunkExprs is the set of references shrunk so far, candidate the
\* candidate solved last.
Distinct(alts) == \A i, j \in 1..Len(alts) : alts[i] = alts[j] => i = j
ShrinkProblem(constraints, coercions, primaryIsApply) ==
    [constraints |-> constraints, written |-> constraints, coercions |-> coercions,
     primaryIsApply |-> primaryIsApply, domains |-> <<>>, shrunkExprs |-> {},
     candidate |-> {}] @@ DefaultOption
CoercionProblems ==
    {ShrinkProblem(GenerationOrder([k \in 1..MaxDisj |-> IF k = 1 THEN a ELSE PlainAlts],
                                   Link(FALSE, <<BindC(LinkId, 1, t1),
                                                 BindC(LinkId + 1, v, t2)>>)),
                   <<{1, LinkId}, 1..(LinkId + 1)>>, FALSE) :
        a \in {x \in FirstAlts : Distinct(x)}, t1 \in Types, v \in 1..MaxDisj,
        t2 \in Types}
ShrinkProblems ==
    {ShrinkProblem(GenerationOrder([k \in 1..n |-> IF k = 1 THEN a ELSE PlainAlts], l),
                   <<>>, p) :
        n \in 1..MaxDisj, a \in {x \in FirstAlts : Distinct(x)},
        l \in LinkChoices, p \in BOOLEAN}
        \cup CoercionProblems

ShrinkInit ==
    /\ problem \in ShrinkProblems
    /\ cs = EmptySystem(numTypeVariables(problem.constraints))
    /\ workList = <<>>
    /\ prevFailed = FALSE
    /\ solutions = <<>>
    /\ pc = "shrink"
    /\ stage = 0
    /\ passResult = "none"
    /\ returned = [value |-> "pending", solutions |-> <<>>]
    /\ timedOut = FALSE

\* shrink: walk the expression, collecting the original domains and the
\* candidates.
ShrinkCollect ==
    /\ pc = "shrink"
    /\ problem' = [problem EXCEPT !.domains = collectDomains(problem.constraints,
                                                              problem.coercions)]
    /\ workList' = collectCandidates(problem.constraints, problem.coercions,
                                     problem.primaryIsApply)
    /\ pc' = "candidates"
    /\ UNCHANGED <<cs, prevFailed, solutions, stage, passResult, returned, timedOut>>

\* shrink, one round of its loop: the next candidate is solved and its
\* solutions reduce the domains, or, there being none, the domains of its
\* sub-expression are restored.
CandidateSolve ==
    /\ pc = "candidates"
    /\ workList # <<>>
    /\ \E tooComplex \in BOOLEAN :
           \E r \in {candidateSolve(problem.constraints, Head(workList), tooComplex)} :
               LET restored == restoreDomains(r.constraints,
                                              Head(workList).ids \cap DOMAIN problem.domains,
                                              problem.domains)
               IN  /\ problem' = [problem EXCEPT
                                      !.constraints = IF r.failed THEN restored
                                                      ELSE r.constraints,
                                      !.shrunkExprs =
                                          IF r.failed
                                          THEN (@ \cup r.shrunk)
                                                   \ (Head(workList).ids
                                                          \cap DOMAIN problem.domains)
                                          ELSE @ \cup r.shrunk,
                                      !.candidate = Head(workList).ids]
                   /\ solutions' = r.solutions
                   /\ prevFailed' = r.failed
    /\ workList' = Tail(workList)
    /\ UNCHANGED <<cs, pc, stage, passResult, returned, timedOut>>

\* shrink returns; the constraints of the whole expression are generated.
ShrinkReturn ==
    /\ pc = "candidates"
    /\ workList = <<>>
    /\ cs' = generateConstraints(cs, problem.constraints)
    /\ pc' = "shrunk"
    /\ UNCHANGED <<problem, workList, prevFailed, solutions, stage, passResult, returned, timedOut>>

ShrinkNext ==
    \/ ShrinkCollect
    \/ CandidateSolve
    \/ ShrinkReturn

ShrinkSpec == ShrinkInit /\ [][ShrinkNext]_vars

\* --------------------------------------------------------- actor isolation
\* A fourth specification: the actor-isolation check of a member reference
\* made inside an actor method.  The declaration contexts between the use
\* site and the method are numbered outwards in: context 0 is the method (the
\* context of self), context k + 1 is nested directly in context k, and the
\* reference is made in the innermost one.
MaxDepth == 3
ModuleScope == 0 - 2
getParent(dc) == dc - 1
isModuleScopeContext(dc) == dc = ModuleScope

\* A closure with its function type's noescape bit, or a local function.
ClosureContext(noEscape) ==
    [kind |-> "AbstractClosureExpr", isNoEscape |-> noEscape, isLocalCapture |-> FALSE]
LocalFunctionContext ==
    [kind |-> "AbstractFunctionDecl", isNoEscape |-> FALSE, isLocalCapture |-> TRUE]
NestedContexts == {ClosureContext(TRUE), ClosureContext(FALSE), LocalFunctionContext}

\* The members referenced: stored properties, let constants, methods and
\* subscripts of the actor class, instance or static, synchronous or
\* asynchronous.
Member(kind, isLet, isInstanceMember, isAsyncContext) ==
    [kind |-> kind, isLet |-> isLet, isInstanceMember |-> isInstanceMember,
     isAsyncContext |-> isAsyncContext]
Members ==
    {Member("Var", FALSE, TRUE, FALSE), Member("Var", TRUE, TRUE, FALSE),
     Member("Var", FALSE, FALSE, FALSE),
     Member("Func", FALSE, TRUE, FALSE), Member("Func", FALSE, TRUE, TRUE),
     Member("Func", FALSE, FALSE, FALSE),
     Member("Subscript", FALSE, TRUE, FALSE)}

\* Faulty variant: asynchronous methods are isolated like synchronous ones.
getActorIsolatingMemberIgnoringAsync(value) == value.isInstanceMember

\* getActorIsolatingMember: whether the member (of the actor class) is part
\* of the actor's isolated state.
getActorIsolatingMember(value) ==
    /\ value.isInstanceMember
    /\ ~(value.kind = "Func" /\ value.isAsyncContext)

\* IsolationRestriction::forDeclaration.
forDeclaration(decl) ==
    IF decl.kind = "Var" /\ decl.isLet THEN "Unrestricted"
    ELSE IF getActorIsolatingMember(decl) THEN "ActorSelf"
    ELSE "Unsafe"

\* Faulty variant: only the context of the use itself is looked at.
mayExecuteConcurrentlyWithInnermostOnly(contexts, useContext, defContext) ==
    /\ useContext # defContext
    /\ \/ contexts[useContext].kind = "AbstractClosureExpr"
             /\ ~contexts[useContext].isNoEscape
       \/ contexts[useContext].kind = "AbstractFunctionDecl"
             /\ contexts[useContext].isLocalCapture

\* mayExecuteConcurrentlyWith: walk the context chain from the use to the
\* definition.
RECURSIVE mayExecuteConcurrentlyWith(_, _, _)
mayExecuteConcurrentlyWith(contexts, useContext, defContext) ==
    IF useContext = defContext THEN FALSE
    ELSE IF /\ contexts[useContext].kind = "AbstractClosureExpr"
            /\ ~contexts[useContext].isNoEscape
    THEN TRUE
    ELSE IF /\ contexts[useContext].kind = "AbstractFunctionDecl"
            /\ contexts[useContext].isLocalCapture
    THEN TRUE
    ELSE IF isModuleScopeContext(getParent(useContext)) THEN FALSE
    ELSE mayExecuteConcurrentlyWith(contexts, getParent(useContext), defContext)

\* diagnoseReferenceToUnsafe: only inside an actor, only stored variables.
diagnoseReferenceToUnsafe(enclosingActor, value) ==
    IF ~enclosingActor THEN "none"
    ELSE IF value.kind # "Var" THEN "none"
    ELSE "shared_mutable_state_access"

\* checkMemberReference: the diagnostic emitted, or "none".  enclosingActor
\* says whether getNearestEnclosingActorContext finds an actor class around
\* the use.
checkMemberReference(contexts, enclosingActor, baseIsSelf, member) ==
    CASE forDeclaration(member) = "Unrestricted" -> "none"
      [] forDeclaration(member) = "ActorSelf" ->
            IF ~baseIsSelf THEN "actor_isolated_non_self_reference"
            ELSE IF mayExecuteConcurrentlyWith(contexts, Len(contexts), 0)
            THEN "actor_isolated_concurrent_access"
            ELSE "none"
      [] forDeclaration(member) = "Unsafe" ->
            diagnoseReferenceToUnsafe(enclosingActor, member)

\* The references checked: a member, on self or on another instance of the
\* actor, from every nesting of closures and local functions up to the depth
\* bound inside a method of the actor; and a member of an actor instance from
\* a function outside any actor, where there is no self of the actor.
References ==
    UNION {{[contexts |-> c, enclosingActor |-> use[1], baseIsSelf |-> use[2],
             member |-> m] :
               c \in [1..n -> NestedContexts],
               use \in {<<TRUE, TRUE>>, <<TRUE, FALSE>>, <<FALSE, FALSE>>},
               m \in Members} :
              n \in 0..MaxDepth}

IsolationInit ==
    /\ problem \in References
    /\ cs = EmptySystem(1)
    /\ workList = <<>>
    /\ prevFailed = FALSE
    /\ solutions = <<>>
    /\ pc = "reference"
    /\ stage = 0
    /\ passResult = "none"
    /\ returned = [value |-> "pending", solutions |-> <<>>]
    /\ timedOut = FALSE

\* The walker checks the member reference.
CheckMemberReference ==
    /\ pc = "reference"
    /\ passResult' = checkMemberReference(problem.contexts, problem.enclosingActor,
                                          problem.baseIsSelf, problem.member)
    /\ prevFailed' = (passResult' # "none")
    /\ pc' = "checked"
    /\ UNCHANGED <<problem, cs, workList, solutions, stage, returned, timedOut>>

IsolationNext == CheckMemberReference

IsolationSpec == IsolationInit /\ [][IsolationNext]_vars

\* ----------------------------------------------------------------- claims
LastPop == cs.lastPop[1]
Popped == cs.lastPop # <<>>
\* The observable state but for how the constraints split into the active
\* and the inactive list.
ButForActivity(o) == [o EXCEPT !.active = {}, !.inactive = o.active \cup o.inactive]

\* C1, as the specification states it: popping a scope leaves the full
\* observable state (bindings, representative links, active and inactive
\* constraint sets, overloads, fixes, opened types, score) equal to the state
\* immediately before the matching push.
C1_PopRestoresEverything ==
    Popped => LastPop.after = LastPop.before

\* C1, amended: popping a scope leaves the bindings, representative links,
\* overloads, fixes, opened types and score equal to the state before the
\* matching push, and the same constraints in circulation; the active list
\* is left empty, the constraints active at the push being inactive.
C1_PopRestoresButActivity ==
    Popped => /\ ButForActivity(LastPop.after) = ButForActivity(LastPop.before)
              /\ LastPop.after.active = {}

\* C1, witness: a scope was popped that had bound type variables, resolved an
\* overload, recorded a fix, raised the score and retired constraints.
C1_Witness ==
    /\ Popped
    /\ LastPop.atPop.fixed # LastPop.before.fixed
    /\ LastPop.atPop.ResolvedOverloads # LastPop.before.ResolvedOverloads
    /\ LastPop.atPop.Fixes # LastPop.before.Fixes
    /\ LastPop.atPop.CurrentScore # LastPop.before.CurrentScore
    /\ LastPop.atPop.inactive # LastPop.before.inactive

\* The solve driver (solveImpl over the work list) has returned.
DriverReturned == pc \in {"solved", "dispatch", "salvage", "done", "applied"}
HasDisjunction ==
    \E i \in 1..Len(problem.constraints) : problem.constraints[i].kind = "Disjunction"

\* C2, as the specification states it: when the solve driver returns, no
\* scope is left open, no constraint is left retired or generated but
\* unhandled, and the failed-constraint flag is clear.
C2_UnwoundAndFlagClear ==
    DriverReturned =>
        /\ cs.scopes = <<>>
        /\ cs.retiredConstraints = <<>>
        /\ cs.generatedConstraints = <<>>
        /\ cs.failedConstraint = None

\* C2, amended: when the solve driver returns, no scope is left open and no
\* constraint is left retired or generated but unhandled; the
\* failed-constraint flag is as constraint generation left it: clear, unless
\* generation itself failed, in which case the driver returned before opening
\* any scope and the flag stays set.
C2_UnwoundAndFlagAsGenerated ==
    DriverReturned =>
        /\ cs.scopes = <<>>
        /\ cs.retiredConstraints = <<>>
        /\ cs.generatedConstraints = <<>>
        /\ cs.failedConstraint = GeneratedSystem.failedConstraint

\* C2, witness: the driver has returned from a search in which every branch
\* of an overload set ended in an error.
C2_Witness ==
    /\ pc = "solved"
    /\ HasDisjunction
    /\ GeneratedSystem.failedConstraint = None
    /\ prevFailed
    /\ ~timedOut
    /\ solutions = <<>>
    /\ Popped

\* C3: a scope, on destruction, restores the bindings journaled since its
\* creation, most recent first, and drops them from the journal; it restores
\* none of the entries journaled before its creation, and truncates the
\* other journals (type variables, overloads, fixes, opened types) to their
\* lengths at its creation.
C3_RestoresOwnEntriesInReverse ==
    Popped =>
        LET n == LastPop.scope.numSavedBindings
            own == Suffix(LastPop.journal, n)
            earlier == Prefix(LastPop.journal, n)
        IN  /\ LastPop.restored = Reverse(own)
            /\ LastPop.journalAfter = earlier
            /\ \A i \in 1..Len(earlier) :
                  (\A j \in 1..Len(own) : own[j].tv # earlier[i].tv) =>
                      /\ LastPop.after.rep[earlier[i].tv] = LastPop.atPop.rep[earlier[i].tv]
                      /\ LastPop.after.fixed[earlier[i].tv] = LastPop.atPop.fixed[earlier[i].tv]
            /\ LastPop.after.TypeVariables =
                   Prefix(LastPop.atPop.TypeVariables, LastPop.scope.numTypeVariables)
            /\ LastPop.after.ResolvedOverloads =
                   Prefix(LastPop.atPop.ResolvedOverloads, LastPop.scope.numResolvedOverloads)
            /\ LastPop.after.Fixes = Prefix(LastPop.atPop.Fixes, LastPop.scope.numFixes)
            /\ LastPop.after.OpenedTypes =
                   Prefix(LastPop.atPop.OpenedTypes, LastPop.scope.numOpenedTypes)

\* C3, witness: a nested scope was destroyed that had journaled two bindings
\* on top of the bindings of its enclosing scope.
C3_Witness ==
    /\ Popped
    /\ LastPop.depth >= 2
    /\ LastPop.scope.numSavedBindings >= 1
    /\ Len(LastPop.journal) >= LastPop.scope.numSavedBindings + 2

\* The running score is worse than, or no better than, the best complete
\* score of the solver state.
Worse(s) == s.solverState /\ s.BestScore # <<>> /\ ScoreLess(s.BestScore[1], s.CurrentScore)
NoBetter(s) == s.solverState /\ s.BestScore # <<>> /\ ScoreLessEq(s.BestScore[1], s.CurrentScore)
HacksEnabled == ~problem.DisableConstraintSolverPerformanceHacks
\* The search is about to go further down the current branch: simplify has
\* a constraint to process, or a step was pushed to explore the branch.
Continuing ==
    \/ InSimplify /\ cs.ActiveConstraints # <<>>
    \/ pc = "advance" /\ workList # <<>> /\ Top.state = "Setup"

\* C4, as the specification states it: the search never continues down a
\* branch whose running score is already worse than the best complete score.
C4_NeverContinuesWorse ==
    ~(Worse(cs) /\ Continuing)

\* C4, amended: with the solver performance hacks enabled, simplify does not
\* go on to a further constraint once a constraint has left the running score
\* worse than the best complete score, and no solution is finalized with a
\* score worse than the best; a score made worse by the choice of an overload
\* is only noticed at the next of these checks, and with the hacks disabled
\* nothing is pruned.
C4_NoSimplifyingNorFinalizingWorse ==
    HacksEnabled =>
        /\ pc = "simplifying" => ~Worse(cs)
        /\ \A i \in 1..Len(solutions) :
              \/ solutions[i].bestBefore = <<>>
              \/ ScoreLessEq(solutions[i].score, solutions[i].bestBefore[1])

\* C4, witness: simplify has just abandoned a branch on account of its score.
C4_Witness ==
    /\ pc = "simplifyFailed"
    /\ cs.failedConstraint = None
    /\ Worse(cs)
    /\ HacksEnabled

\* C5, as the specification states it: a branch is abandoned immediately if
\* its score is no better than (equal to or worse than) the best complete
\* score.
C5_NeverContinuesNoBetter ==
    ~(NoBetter(cs) /\ Continuing)

\* A leaf of the search: nothing failed, nothing left to simplify, no
\* disjunction left, and the policy for free type variables is met.
AtLeaf ==
    /\ SimplifyReturned
    /\ ~SimplifyFailed
    /\ Top.kind = "Splitter"
    /\ Top.state = "Running"
    /\ ~getExpressionTooComplex
    /\ selectDisjunction(cs) = None
    /\ ~(cs.AllowFreeTypeVariables = "Disallow" /\ hasFreeTypeVariables(cs))

\* C5, amended: simplify abandons a branch right after the constraint that
\* left its score strictly worse than the best complete score (with the
\* performance hacks enabled) and for no other score; a branch whose score
\* equals the best is not abandoned: its leaf is finalized as one more
\* solution.
C5_AbandonsWorseKeepsEqual ==
    [][/\ (InSimplify /\ pc' \in {"simplifying", "simplifyFailed"}
              /\ cs'.failedConstraint = None)
          => (pc' = "simplifyFailed" <=> (HacksEnabled /\ Worse(cs')))
       /\ (AtLeaf /\ cs.BestScore = <<cs.CurrentScore>> /\ workList' # workList)
          => solutions' = Append(solutions, finalizeSolution(cs))]_vars

\* C5, witness: a solution was finalized with a score equal to the best
\* complete score found before it.
C5_Witness ==
    /\ Len(solutions) >= 2
    /\ solutions[2].bestBefore = <<solutions[2].score>>
    /\ HacksEnabled

\* The scores of all the complete leaves below a state of the system, found
\* without pruning: simplify to the end, then branch on every alternative of
\* the selected disjunction.
RECURSIVE simplifyAll(_)
simplifyAll(s) ==
    IF s.failedConstraint # None \/ s.ActiveConstraints = <<>> THEN s
    ELSE simplifyAll(simplifyFront(s))

RECURSIVE LeafScores(_)
LeafScores(s) ==
    LET r == simplifyAll(s)
        position == selectDisjunction(r)
        disjunction == r.InactiveConstraints[position]
        rest == [r EXCEPT !.InactiveConstraints = RemoveAt(@, position)]
    IN  IF r.failedConstraint # None THEN {}
        ELSE IF position = None
        THEN IF r.AllowFreeTypeVariables = "Disallow" /\ hasFreeTypeVariables(r)
             THEN {} ELSE {r.CurrentScore}
        ELSE UNION {LeafScores(simplifyDisjunctionChoice(rest, disjunction, i)) :
                       i \in 1..Len(disjunction.alts)}

\* The system as the running stage's solver state found it.
StageEntry ==
    IF stage = 0 THEN attachSolverState(GeneratedSystem, problem.allowFreeTypeVariables, FALSE)
    ELSE attachSolverState(GeneratedSystem, "Disallow", TRUE)

SearchCompleted == pc = "solved" /\ ~timedOut

\* C6: pruning never discards a branch that could have produced a final
\* score strictly better than the best: when the search completes, no
\* complete leaf of the whole search tree has a score strictly better than
\* the best score the search recorded, and some solution has that score.
C6_BestIsOptimal ==
    SearchCompleted =>
        \A score \in LeafScores(StageEntry) :
            /\ cs.BestScore # <<>>
            /\ ScoreLessEq(cs.BestScore[1], score)
            /\ \E i \in 1..Len(solutions) : solutions[i].score = cs.BestScore[1]

\* C6, witness: the search completed having pruned a branch: a complete leaf
\* of the tree has a score worse than the best, and no solution has it.
C6_Witness ==
    /\ SearchCompleted
    /\ HacksEnabled
    /\ \E score \in LeafScores(StageEntry) :
          /\ Worse([cs EXCEPT !.CurrentScore = score])
          /\ \A i \in 1..Len(solutions) : solutions[i].score # score

ScoreNotLowered(a, b) == \A k \in 1..Len(a) : a[k] <= b[k]

\* C7: the running score never goes down, in any of its counters, except in
\* a step that pops a scope, which restores the score saved at the push.
C7_ScoreLoweredOnlyByPop ==
    [][\/ ScoreNotLowered(cs.CurrentScore, cs'.CurrentScore)
       \/ /\ cs.scopes # <<>>
          /\ cs'.scopes = Prefix(cs.scopes, Len(cs.scopes) - 1)
          /\ cs'.CurrentScore = Last(cs.scopes).PreviousScore]_vars

\* C7, witness: along a branch the score was raised, a nested scope was
\* opened, the score was raised again, and the pop of the nested scope put
\* back the score saved at its push.
C7_Witness ==
    /\ Popped
    /\ LastPop.depth >= 3
    /\ LastPop.before.CurrentScore # ZeroScore
    /\ ScoreLess(LastPop.before.CurrentScore, LastPop.atPop.CurrentScore)
    /\ LastPop.after.CurrentScore = LastPop.before.CurrentScore

Returned == pc \in {"done", "applied"}
ReturnedSolutions == Range(returned.solutions)

\* C8, as the specification states it: a solution produced by the salvage
\* pass is never handed back by the top-level solve as a successful solution.
C8_SalvageNeverReturned ==
    Returned => \A sol \in ReturnedSolutions : sol.pass = 0

\* C8, amended: solve hands back a solution of the salvage pass exactly when
\* salvage ends with a single best solution (Success), and then that one
\* solution alone; a salvage pass that ends ambiguous, too complex or
\* undiagnosed hands back none.
C8_SalvageReturnedOnlyAsSuccess ==
    Returned =>
        /\ \A sol \in ReturnedSolutions : sol.pass = stage
        /\ stage = 1 =>
              /\ returned.value = "Some" <=> passResult = "Success"
              /\ Len(returned.solutions) <= 1

\* C8, witness: solve has handed back the single best solution of salvage.
C8_Witness ==
    /\ Returned
    /\ stage = 1
    /\ passResult = "Success"
    /\ returned.value = "Some"
    /\ returned.solutions[1].pass = 1

\* C9, as the specification states it: a solution that carries one or more
\* fixes is never the answer returned by the top-level solve.
C9_NoFixBearingReturned ==
    Returned => \A sol \in ReturnedSolutions : ~hasFixes(sol)

\* C9, amended: a solution carrying a fix that repairs a failed constraint
\* is returned by solve only as the single best solution of the salvage
\* pass; the first attempt returns fix-bearing solutions too, all of whose
\* fixes record an invalid partial application of the chosen overload.
C9_RepairingFixesOnlyFromSalvage ==
    Returned =>
        \A sol \in ReturnedSolutions :
            (\E i \in 1..Len(sol.Fixes) : sol.Fixes[i].kind = "mismatch") =>
                /\ sol.pass = 1
                /\ passResult = "Success"
                /\ returned.solutions = <<sol>>

\* C9, witness: solve has returned a solution that repairs a failed
\* constraint with a fix.
C9_Witness ==
    /\ Returned
    /\ \E sol \in ReturnedSolutions :
          \E i \in 1..Len(sol.Fixes) : sol.Fixes[i].kind = "mismatch"

\* C10: solve returns exactly one solution, or the ambiguous solutions of
\* the first attempt, or none; it returns more than one solution only when
\* AllowUnresolvedTypeVariables is requested.
C10_OneOrAmbiguousOrNone ==
    Returned =>
        \/ returned.value = "None" /\ returned.solutions = <<>>
        \/ returned.value = "Some" /\ Len(returned.solutions) = 1
        \/ /\ returned.value = "Some"
           /\ Len(returned.solutions) >= 2
           /\ problem.AllowUnresolvedTypeVariables
           /\ stage = 0
           /\ passResult = "Ambiguous"

\* C10, witness: solve has returned several ambiguous solutions.
C10_Witness ==
    /\ Returned
    /\ Len(returned.solutions) >= 2

\* The pass that ran last has ended its search (pc = "solved") with the
\* complexity limits exceeded, and is about to classify its result.
EndsSearchTooComplex == pc = "solved" /\ getExpressionTooComplex

\* C11: whenever the search exceeded the complexity limits, the pass that
\* ran it (the first attempt or salvage) reports TooComplex, whatever the
\* solutions collected, and solve then returns no solution.
C11_ExceededReportsTooComplex ==
    [][EndsSearchTooComplex => passResult' = "TooComplex"]_vars

\* solve leaves the switch over the result of the first attempt.
LeavesFirstDispatch == pc = "dispatch" /\ stage = 0 /\ pc' # pc
EntersSalvage == pc # "salvage" /\ pc' = "salvage"

\* C12, as the specification states it: the salvage pass runs exactly when
\* the first pass ended with zero solutions (UndiagnosedError), and after no
\* other first-pass outcome.
C12_SalvageIffUndiagnosed ==
    [][/\ LeavesFirstDispatch => (pc' = "salvage" <=> passResult = "UndiagnosedError")
       /\ EntersSalvage => LeavesFirstDispatch]_vars

\* C12, amended: the salvage pass runs exactly when diagnostics are not
\* suppressed and the first pass ended either with zero solutions
\* (UndiagnosedError) or Ambiguous without AllowUnresolvedTypeVariables
\* requested; it runs after no other first-pass outcome, and only once.
C12_SalvageIffUndiagnosedOrAmbiguous ==
    [][/\ LeavesFirstDispatch =>
             (pc' = "salvage" <=>
                 /\ ~problem.suppressDiagnostics
                 /\ \/ passResult = "UndiagnosedError"
                    \/ passResult = "Ambiguous" /\ ~problem.AllowUnresolvedTypeVariables)
       /\ EntersSalvage => LeavesFirstDispatch]_vars

\* C12, witness: salvage is about to run after an ambiguous first attempt.
C12_Witness ==
    /\ pc = "salvage"
    /\ stage = 1
    /\ passResult = "Ambiguous"
    /\ Len(solutions) >= 2

\* A disjunction step is on top of the work list, about to be advanced.
AtDisjunction == pc = "advance" /\ workList # <<>> /\ Top.kind = "Disjunction"
\* The attempt of an alternative has just failed: in simplifyDisjunctionChoice
\* itself, or in the simplify that follows it.
AttemptFails ==
    \/ /\ AtDisjunction
       /\ Top.state \in {"Setup", "Ready"}
       /\ Top.index < Len(Top.disjunction[1].alts)
       /\ ~getExpressionTooComplex
       /\ simplifyDisjunctionChoice(pushScope(cs), Top.disjunction[1],
                                    Top.index + 1).failedConstraint # None
    \/ /\ SimplifyFailed
       /\ Top.kind = "Disjunction"
       /\ Top.state = "Running"

\* C13: a local constraint failure ends only the current branch: the failed
\* attempt leaves its disjunction step on the work list, ready, with the
\* failure cleared; while the limits are not exceeded a ready disjunction
\* step with alternatives left attempts the next one, and a disjunction step
\* leaves the work list only when all its alternatives have been attempted.
C13_FailureEndsOnlyTheBranch ==
    [][/\ (AttemptFails /\ workList' # workList) =>
              /\ Len(workList') = Len(workList)
              /\ Last(workList').state = "Ready"
              /\ cs'.failedConstraint = None
              /\ pc' = "advance"
       /\ (AtDisjunction /\ Top.state \in {"Setup", "Ready"} /\ ~getExpressionTooComplex
              /\ Top.index < Len(Top.disjunction[1].alts)) =>
              /\ cs.failedConstraint = None
              /\ Len(workList') = Len(workList)
              /\ (workList' # workList => Last(workList').index = Top.index + 1)
       /\ (AtDisjunction /\ Len(workList') < Len(workList) /\ ~getExpressionTooComplex) =>
              Top.index = Len(Top.disjunction[1].alts)]_vars

\* C13, witness: the search has completed with a solution that chose the
\* second alternative of the disjunction selected first, whose first
\* alternative fails.
C13_Witness ==
    /\ SearchCompleted
    /\ stage = 0
    /\ LET r == simplifyAll(StageEntry)
           position == selectDisjunction(r)
           disjunction == r.InactiveConstraints[position]
           rest == [r EXCEPT !.InactiveConstraints = RemoveAt(@, position)]
       IN  /\ r.failedConstraint = None
           /\ position # None
           /\ simplifyAll(simplifyDisjunctionChoice(rest, disjunction, 1)).failedConstraint # None
           /\ \E i \in 1..Len(solutions) :
                 solutions[i].DisjunctionChoices[1] = [locator |-> disjunction.id, index |-> 2]

\* What identifies a solution and what it holds, without the bookkeeping of
\* the pass that produced it.
Outcome(sol) ==
    [score |-> sol.score,
     typeBindings |-> sol.typeBindings,
     overloadChoices |-> sol.overloadChoices,
     Fixes |-> sol.Fixes,
     DisjunctionChoices |-> sol.DisjunctionChoices]

\* The leaves of the whole search tree below a state of the system, found
\* without pruning on the score: simplify to the end, then branch on every
\* alternative of the selected disjunction that is not disabled.
RECURSIVE Leaves(_)
Leaves(s) ==
    LET r == simplifyAll(s)
        position == selectDisjunction(r)
        disjunction == r.InactiveConstraints[position]
        rest == [r EXCEPT !.InactiveConstraints = RemoveAt(@, position)]
        chosen(i) == [rest EXCEPT !.DisjunctionChoices =
                                      Append(@, [locator |-> disjunction.id, index |-> i])]
    IN  IF r.failedConstraint # None THEN {}
        ELSE IF position = None
        THEN IF r.AllowFreeTypeVariables = "Disallow" /\ hasFreeTypeVariables(r)
             THEN {} ELSE {Outcome(finalizeSolution(r))}
        ELSE UNION {Leaves(simplifyDisjunctionChoice(chosen(i), disjunction, i)) :
                       i \in {j \in 1..Len(disjunction.alts) :
                                 ~isDisabled(disjunction.alts[j])}}

Produced == {Outcome(solutions[i]) : i \in 1..Len(solutions)}

\* C14: the search is exhaustive subject to pruning: when the work list has
\* become empty (the limits not exceeded), every solution is a leaf of the
\* search tree, no leaf is produced twice, and every leaf has been produced
\* as a solution, but for leaves pruned on their score, which (performance
\* hacks enabled) score worse than the best solution.
C14_EveryUnprunedLeafProduced ==
    SearchCompleted =>
        /\ Produced \subseteq Leaves(StageEntry)
        /\ Cardinality(Produced) = Len(solutions)
        /\ \A leaf \in Leaves(StageEntry) \ Produced :
              /\ HacksEnabled
              /\ cs.BestScore # <<>>
              /\ ScoreLess(cs.BestScore[1], leaf.score)

\* C14, witness: the search completed having produced three or more leaves,
\* from nested branch points.
C14_Witness ==
    /\ SearchCompleted
    /\ Len(solutions) >= 3
    /\ Produced = Leaves(StageEntry)
    /\ \E i \in 1..Len(solutions) : Len(solutions[i].DisjunctionChoices) >= 2

\* The system filterDisjunction was called on, the call and its disjunction.
DisjunctionEntry ==
    IF problem.solving THEN attachSolverState(GeneratedSystem, "Disallow", FALSE)
    ELSE GeneratedSystem
Filtered == pc = "filtered"
FilteredDisjunction == DisjunctionEntry.InactiveConstraints[workList[1].position]
Accepted(i) == workList[1].pred[FilteredDisjunction.alts[i].ty]
\* The alternatives the filter leaves enabled, and those it counts as
\* enabled: a disabled alternative that carries a fix is counted too.
LeftEnabled ==
    {i \in 1..Len(FilteredDisjunction.alts) :
        ~isDisabled(FilteredDisjunction.alts[i]) /\ Accepted(i)}
Counted ==
    {i \in 1..Len(FilteredDisjunction.alts) :
        /\ ~isDisabled(FilteredDisjunction.alts[i]) \/ getFix(FilteredDisjunction.alts[i])
        /\ Accepted(i)}
TheOne(S) == CHOOSE i \in S : TRUE
\* The filter collapsed the disjunction: it counted a single term, which it
\* could attempt in place.
Collapsed ==
    /\ Filtered
    /\ Cardinality(Counted) = 1
    /\ ~FilteredDisjunction.alts[TheOne(Counted)].keyPathDynamicMemberLookup
\* The same disjunction left in the system to branch on, with the rejected
\* alternatives disabled.
LeftToBranch ==
    [DisjunctionEntry EXCEPT
        !.InactiveConstraints[workList[1].position].alts =
            [i \in DOMAIN @ |-> IF Accepted(i) THEN @[i] ELSE Disabled(@[i])]]
\* The final solutions of a system: the leaves of its search, the maps of a
\* solution compared as maps.
Final(s) ==
    {[o EXCEPT !.overloadChoices = Range(@), !.DisjunctionChoices = Range(@)] :
        o \in Leaves(IF s.solverState THEN s
                     ELSE attachSolverState(s, "Disallow", FALSE))}

Committed(i) ==
    LET disjunction == FilteredDisjunction
        choice == disjunction.alts[i]
        entry == DisjunctionEntry
    IN  /\ disjunction.id \notin Ids(cs.InactiveConstraints) \cup Ids(cs.ActiveConstraints)
        /\ problem.solving => disjunction.id \in Ids(cs.retiredConstraints)
        /\ cs.scopes = entry.scopes
        /\ Len(workList) = 1
        /\ cs.DisjunctionChoices =
               Append(entry.DisjunctionChoices, [locator |-> disjunction.id, index |-> i])
        /\ IF choice.kind = "BindOverload"
           THEN cs.ResolvedOverloads =
                    Append(entry.ResolvedOverloads,
                           [locator |-> disjunction.id, choice |-> choice])
           ELSE cs.ResolvedOverloads = entry.ResolvedOverloads
        /\ \/ cs.failedConstraint # None /\ passResult = "Unsolved"
           \/ /\ cs.failedConstraint = None
              /\ passResult = "Solved"
              /\ getFixedType(cs, disjunction.tv) = choice.ty

Selected == pc = "selected"
SelectedPosition == workList[1].position
Candidates == collectDisjunctions(cs)
\* A disjunction of pure type variable bindings, its variable still unbound.
IsBinding(i) ==
    LET disjunction == cs.InactiveConstraints[i]
    IN  /\ \A k \in 1..Len(disjunction.alts) : disjunction.alts[k].kind = "Bind"
        /\ getFixedType(cs, disjunction.tv) = NoType
\* Its variable is the right-hand side of a pending conversion.
ConvertedTo(i) ==
    \E c \in Range(cs.ActiveConstraints) \cup Range(cs.InactiveConstraints) :
        /\ c.kind = "Conversion"
        /\ getRepresentative(cs, c.tv2) = getRepresentative(cs, cs.InactiveConstraints[i].tv)
Fewest(i) ==
    \A j \in Candidates :
        countActiveNestedConstraints(cs.InactiveConstraints[i])
            <= countActiveNestedConstraints(cs.InactiveConstraints[j])

NextConstraint == Head(cs.ActiveConstraints)
YieldsError ==
    /\ InSimplify
    /\ cs.ActiveConstraints # <<>>
    /\ simplifyConstraint(deactivateConstraint(cs, NextConstraint), NextConstraint).kind
           = "Error"

\* C18: simplify, called without the request to continue after failures (as
\* the search calls it), returns as soon as the constraint it processed
\* yields Error: the failed constraint is noted, and the constraints still
\* active are not processed: after the caller's next step they are active or
\* inactive, and nothing more is retired.
C18_ErrorStopsSimplify ==
    [][/\ (YieldsError /\ cs' # cs) =>
              /\ pc' = "simplifyFailed"
              /\ cs'.failedConstraint = NextConstraint.id
              /\ cs'.ActiveConstraints = Tail(cs.ActiveConstraints)
       /\ (pc = "simplifyFailed" /\ pc' # pc) =>
              /\ pc' = "advance"
              /\ Range(cs.ActiveConstraints)
                     \subseteq Range(cs'.ActiveConstraints) \cup Range(cs'.InactiveConstraints)
              /\ Len(cs'.retiredConstraints) <= Len(cs.retiredConstraints)]_vars

\* C18, witness: simplify has returned on a failed constraint with another
\* constraint still active.
C18_Witness ==
    /\ pc = "simplifyFailed"
    /\ cs.failedConstraint # None
    /\ cs.ActiveConstraints # <<>>

\* simplify processes the constraint at the front of the worklist.
Simplifies == InSimplify /\ cs.ActiveConstraints # <<>> /\ cs' # cs
StaysUnsolved ==
    simplifyConstraint(deactivateConstraint(cs, NextConstraint), NextConstraint).kind
        = "Unsolved"
\* A type variable changes in a step: its fixed type, its representative or
\* its equivalence class.
Changes(v) ==
    \/ v \notin Range(cs.TypeVariables)
    \/ v \notin Range(cs'.TypeVariables)
    \/ getFixedType(cs, v) # getFixedType(cs', v)
    \/ EquivalenceClass(cs, v) # EquivalenceClass(cs', v)
Activated(c) ==
    /\ c \in Range(cs.InactiveConstraints)
    /\ c \in Range(cs'.ActiveConstraints)

\* The solver state is torn down, restoring the constraints that were active
\* when it was set up.
Restored(c) ==
    /\ cs.solverState /\ ~cs'.solverState
    /\ c \in Range(cs.activeConstraints)

\* C19, as the specification states it: no retired constraint is on the
\* worklist, so simplify never processes a constraint while it is retired; a
\* constraint that simplify finds Unsolved is inactive afterwards; and an
\* inactive constraint is put on the worklist only in a step that changes one
\* of the variables it mentions.
C19_RetriedOnlyOnChange ==
    [][/\ Ids(cs.ActiveConstraints) \cap Ids(cs.retiredConstraints) = {}
       /\ Simplifies => NextConstraint.id \notin Ids(cs.retiredConstraints)
       /\ (Simplifies /\ StaysUnsolved) =>
              /\ NextConstraint \in Range(cs'.InactiveConstraints)
              /\ NextConstraint \notin Range(cs'.ActiveConstraints)
       /\ \A c \in Range(cs.InactiveConstraints) :
              Activated(c) => \E v \in Mentions(c) : Changes(v)]_vars

\* C19, amended: as above, but an inactive constraint is also put back on
\* the worklist when the solver state is torn down, if it was active when
\* the solver state was set up.
C19_RetriedOnChangeOrTeardown ==
    [][/\ Ids(cs.ActiveConstraints) \cap Ids(cs.retiredConstraints) = {}
       /\ Simplifies => NextConstraint.id \notin Ids(cs.retiredConstraints)
       /\ (Simplifies /\ StaysUnsolved) =>
              /\ NextConstraint \in Range(cs'.InactiveConstraints)
              /\ NextConstraint \notin Range(cs'.ActiveConstraints)
       /\ \A c \in Range(cs.InactiveConstraints) :
              Activated(c) => \/ \E v \in Mentions(c) : Changes(v)
                              \/ Restored(c)]_vars

\* C19, witness: a requirement that was Unsolved while its variable was free
\* is on the worklist again now that the variable has a type, other
\* constraints being retired or left inactive.
C19_Witness ==
    /\ InSimplify
    /\ cs.ActiveConstraints # <<>>
    /\ NextConstraint.kind = "Conforms"
    /\ getFixedType(cs, NextConstraint.tv) # NoType
    /\ NextConstraint \in Range(GeneratedSystem.InactiveConstraints)
    /\ cs.retiredConstraints # <<>>
    /\ cs.InactiveConstraints # <<>>

\* simplify has returned and left nothing on the worklist.
ReturnedNothingPending == SimplifyReturned /\ cs.ActiveConstraints = <<>>

\* C20: when simplify has returned with nothing left on the worklist, a
\* second call, asked to continue after failures or not, leaves the whole
\* state of the system as it is.
C20_SecondSimplifyChangesNothing ==
    ReturnedNothingPending => \A flag \in BOOLEAN : simplify(cs, flag).s = cs

\* C20, witness: simplify has returned from processing constraints, some
\* retired and some left inactive, and a second call changes nothing.
C20_Witness ==
    /\ ReturnedNothingPending
    /\ cs.retiredConstraints # <<>>
    /\ cs.InactiveConstraints # <<>>
    /\ simplify(cs, FALSE).s = cs

\* A step assigns a fixed type to a type variable that had none.
GetsFixedType(v) ==
    /\ v \in Range(cs.TypeVariables) \cap Range(cs'.TypeVariables)
    /\ getFixedType(cs, v) = NoType
    /\ getFixedType(cs', v) # NoType
\* The step has journaled the earlier state of a representative of v.
Journals(v) ==
    /\ Len(cs'.savedBindings) > Len(cs.savedBindings)
    /\ \E k \in (Len(cs.savedBindings) + 1)..Len(cs'.savedBindings) :
           /\ cs'.savedBindings[k].fixed = NoType
           /\ cs'.savedBindings[k].tv \in EquivalenceClass(cs', v)
\* Every inactive constraint that mentions v is on the active list after it.
Reactivates(v) ==
    \A c \in Range(cs.InactiveConstraints) :
        v \in Mentions(c) => c \in Range(cs'.ActiveConstraints)

\* C21, as the specification states it: every step that assigns a fixed type
\* journals the binding and puts every inactive constraint that mentions the
\* variable back on the active list.
C21_AssignJournalsAndReactivates ==
    [][\A v \in TVs : GetsFixedType(v) => Journals(v) /\ Reactivates(v)]_vars

\* C21, amended: a fixed type assigned while a solver state is attached is
\* journaled, and the inactive constraints that mention the variable are put
\* back on the active list, except when a solution is applied to the system:
\* applySolution assigns the types without updating the solver's state.
C21_AssignJournalsAndReactivatesWhileSolving ==
    [][\A v \in TVs :
           GetsFixedType(v) =>
               /\ cs.solverState => Journals(v)
               /\ pc' # "applied" => Reactivates(v)]_vars

\* C21, witness: while solving, a variable has just been given a type, the
\* binding is the last of the journal, and a constraint on that variable that
\* constraint generation had left inactive is on the active list.
C21_Witness ==
    /\ cs.solverState
    /\ cs.savedBindings # <<>>
    /\ getFixedType(cs, Last(cs.savedBindings).tv) # NoType
    /\ \E c \in Range(cs.ActiveConstraints) :
           /\ c \in Range(GeneratedSystem.InactiveConstraints)
           /\ Last(cs.savedBindings).tv \in Mentions(c)

\* The expression as written, its constraint system, and the solutions solve
\* finds for it when no overload set has been shrunk.
Shrunk == pc = "shrunk"
OriginalExpression == problem.written
WholeSolutions ==
    filterSolutions(solveImpl(attachSolverState(
        generateConstraints(EmptySystem(numTypeVariables(OriginalExpression)),
                            OriginalExpression),
        "Disallow", FALSE)))
CorrectSolutions ==
    {WholeSolutions[i] : i \in {j \in 1..Len(WholeSolutions) :
                                   ~hasFixes(WholeSolutions[j])}}
Removed(OSR) ==
    Range(getDecls(problem.written, OSR)) \ Range(getDecls(problem.constraints, OSR))

\* C22: shrinking never removes from an overload-set reference an overload
\* choice that participates in a correct final solution of the whole
\* expression: when shrink has returned, every declaration chosen by a
\* solution without fixes of the expression as written is still among the
\* declarations of its overload set reference.
C22_ShrinkKeepsSolutionChoices ==
    Shrunk =>
        \A sol \in CorrectSolutions :
            \A c \in Range(sol.overloadChoices) :
                c.choice \notin Removed(c.locator)

\* The solutions of a stage and of solve as functions of the input alone.
Outcomes(sols) == [i \in 1..Len(sols) |-> Outcome(sols[i])]
StageSolutions == solveImpl(StageEntry)
Undisturbed == ~timedOut /\ ~problem.generationFails

RECURSIVE Follow(_, _, _)
Follow(s, v, n) == IF n = 0 THEN v ELSE Follow(s, s.rep[v], n - 1)
IsRepresentative(s, v) == s.rep[v] = v

\* C24: after any sequence of merges, bindings and scope pops, the
\* representative links form a forest with no cycles (following the links
\* from any type variable ends at a representative, which is its own link),
\* and only representatives carry a fixed-type binding.
C24_ForestAndFixedOnlyAtRepresentatives ==
    \A v \in TVs :
        /\ IsRepresentative(cs, Follow(cs, v, MaxTVs))
        /\ cs.fixed[v] # NoType => IsRepresentative(cs, v)

\* C24, witness: a scope pop has restored bindings, and a type variable
\* merged into another's class has a fixed type through its representative.
C24_Witness ==
    /\ cs.restored # <<>>
    /\ \E v \in Range(cs.TypeVariables) :
          /\ ~IsRepresentative(cs, v)
          /\ getFixedType(cs, v) # NoType

\* C25: the fatal preconditions are never violated by the solver itself: a
\* fixed type is only ever assigned to a type variable that has none, and
\* equivalence classes are only ever merged for two distinct representatives;
\* no assignment and no merge made so far broke its precondition.
C25_NoFatalPrecondition == ~cs.fatal

\* C25, witness: while solving, the journal holds both a merge (its variable
\* now has another representative) and an assignment (its variable now has a
\* fixed type).
C25_Witness ==
    /\ cs.solverState
    /\ ~cs.fatal
    /\ \E i, j \in 1..Len(cs.savedBindings) :
          /\ ~IsRepresentative(cs, cs.savedBindings[i].tv)
          /\ cs.fixed[cs.savedBindings[j].tv] # NoType

\* The locators of the overloads on record, in order.
ResolvedLocators(s) == [i \in 1..Len(s.ResolvedOverloads) |-> s.ResolvedOverloads[i].locator]

\* C26: on any branch a resolved overload is recorded against a given locator
\* at most once: no two records of the resolved overloads have the same
\* locator.
C26_LocatorResolvedOnce ==
    \A i, j \in 1..Len(cs.ResolvedOverloads) :
        ResolvedLocators(cs)[i] = ResolvedLocators(cs)[j] => i = j

\* C26, witness: the second alternative of an overload set is on record for
\* its locator, the record of the first having been erased with its scope,
\* while another overload set is resolved as well.
C26_Witness ==
    /\ cs.solverState
    /\ Len(cs.ResolvedOverloads) >= 2
    /\ \E i \in 1..Len(cs.ResolvedOverloads), k \in 1..Len(cs.DisjunctionChoices) :
          /\ cs.DisjunctionChoices[k].locator = ResolvedLocators(cs)[i]
          /\ cs.DisjunctionChoices[k].index = 2

\* The policy for free type variables of the stage that produced a solution.
PolicyOf(sol) == IF sol.pass = 0 THEN problem.allowFreeTypeVariables ELSE "Disallow"
Unbound(sol) == {k \in 1..Len(sol.typeBindings) : sol.typeBindings[k] = NoType}

\* C27: under the disallow policy for free type variables, no solution is ever
\* finalized while any type variable is still unbound: every solution
\* produced by a stage solving under that policy, and every solution solve
\* hands back from it, gives a type to each of its type variables.
C27_DisallowLeavesNoVariableUnbound ==
    /\ \A i \in 1..Len(solutions) :
          PolicyOf(solutions[i]) = "Disallow" => Unbound(solutions[i]) = {}
    /\ \A i \in 1..Len(returned.solutions) :
          PolicyOf(returned.solutions[i]) = "Disallow" => Unbound(returned.solutions[i]) = {}

\* C27, witness: under the disallow policy a leaf has just been refused, a
\* type variable being still free with nothing left to simplify or to branch
\* on, after another leaf was finalized into a solution.
C27_Witness ==
    /\ pc = "advance"
    /\ prevFailed
    /\ cs.solverState
    /\ cs.AllowFreeTypeVariables = "Disallow"
    /\ cs.failedConstraint = None
    /\ cs.ActiveConstraints = <<>>
    /\ selectDisjunction(cs) = None
    /\ hasFreeTypeVariables(cs)
    /\ solutions # <<>>

\* A step of the search proper: not the filtering of the solutions when a
\* stage has finished, nor the start of the salvage stage with an empty list.
Searching == pc \notin {"solved", "salvage"}

\* C28: a solution is produced once per successful leaf and never changes
\* after construction: a step of the search (backtracking and scope pops
\* included) leaves every solution produced so far as it is, bindings,
\* overload choices, fixes and score, and adds at most one, the one finalized
\* from the leaf the system is at.
C28_ProducedSolutionsNeverChange ==
    [][Searching =>
          \/ solutions' = solutions
          \/ solutions' = Append(solutions, finalizeSolution(cs))]_vars

\* C28, witness: after a first solution the search has backtracked and
\* produced a second one with other bindings.
C28_Witness ==
    /\ Len(solutions) >= 2
    /\ cs.lastPop # <<>>
    /\ solutions[1].typeBindings # solutions[2].typeBindings
    /\ solutions[1].overloadChoices # cs.ResolvedOverloads

\* C29: the solver is non-reentrant per constraint system: at most one solver
\* state is attached to a constraint system at any time (the system points at
\* it exactly while it lives), and no solve starts on a system while another
\* solve on it is in progress: at the entry of solve and of salvage no solver
\* state is attached.
C29_OneSolverStateNoReentry ==
    /\ cs.attached <= 1
    /\ cs.solverState <=> cs.attached = 1
    /\ pc \in {"solve", "salvage"} => cs.attached = 0

\* C29, witness: the salvage stage is solving with its own solver state, the
\* one of the first stage having been let go.
C29_Witness ==
    /\ stage = 1
    /\ pc = "advance"
    /\ cs.attached = 1
    /\ cs.recordFixes
    /\ workList # <<>>

\* The reference checked is one on self to an actor-isolated member; the
\* contexts crossed walking from the use site out to the context of self.
Checked == pc = "checked"
IsolatedOnSelf ==
    /\ pc \in {"reference", "checked"}
    /\ problem.baseIsSelf
    /\ forDeclaration(problem.member) = "ActorSelf"
Crossed == IF pc \in {"reference", "checked"} THEN Range(problem.contexts) ELSE {}

\* C30: inside an actor method, a reference on self to an actor-isolated
\* member is accepted when made directly or from (however many nested)
\* non-escaping closures, and is diagnosed as a possibly concurrent access
\* whenever an escaping closure or a local function is crossed at any depth
\* between the use site and the context of self.
C30_SelfReferenceIsolation ==
    (Checked /\ IsolatedOnSelf) =>
        /\ Crossed \subseteq {ClosureContext(TRUE)} => passResult = "none"
        /\ Crossed \cap {ClosureContext(FALSE), LocalFunctionContext} # {} =>
               passResult = "actor_isolated_concurrent_access"

\* C30, witness: a reference made from a non-escaping closure nested in a
\* local function has been diagnosed: the local function is crossed at the
\* second step of the walk.
C30_Witness ==
    /\ Checked
    /\ IsolatedOnSelf
    /\ Len(problem.contexts) >= 2
    /\ problem.contexts[Len(problem.contexts)] = ClosureContext(TRUE)
    /\ problem.contexts[1] = LocalFunctionContext
    /\ passResult = "actor_isolated_concurrent_access"

\* The member referenced, by what the declaration is.
ReferencedMember == IF pc \in {"reference", "checked"} THEN problem.member ELSE Member("Var", TRUE, TRUE, FALSE)
IsolatedInstanceMember ==
    /\ ReferencedMember.isInstanceMember
    /\ \/ ReferencedMember.kind = "Var" /\ ~ReferencedMember.isLet
       \/ ReferencedMember.kind = "Func" /\ ~ReferencedMember.isAsyncContext
       \/ ReferencedMember.kind = "Subscript"
FreelyUsableMember ==
    \/ ReferencedMember.kind = "Var" /\ ReferencedMember.isLet
    \/ ReferencedMember.kind = "Func" /\ ReferencedMember.isAsyncContext
    \/ ReferencedMember.kind = "Func" /\ ~ReferencedMember.isInstanceMember

\* C31: a reference through a base other than self to a mutable property, a
\* synchronous method or a subscript of an actor instance is diagnosed as a
\* non-self reference, inside a method of the actor (another instance) and
\* outside any actor alike; a reference to an immutable property, an
\* asynchronous method or a static method is accepted.
C31_NonSelfReferenceIsolation ==
    (Checked /\ ~problem.baseIsSelf) =>
        /\ IsolatedInstanceMember =>
               passResult = "actor_isolated_non_self_reference"
        /\ FreelyUsableMember => passResult = "none"

\* C31, witness: a subscript of an actor instance referenced from code outside
\* any actor has been diagnosed.
C31_Witness ==
    /\ Checked
    /\ ~problem.baseIsSelf
    /\ ~problem.enclosingActor
    /\ problem.member.kind = "Subscript"
    /\ passResult = "actor_isolated_non_self_reference"

\* The ids of the constraints that were on the active list when the last
\* scope was popped.
ActiveAtPop == IF cs.lastPop = <<>> THEN {} ELSE {c.id : c \in LastPop.atPop.active}

\* C32: popping a scope moves every constraint still on the active list to
\* the inactive list and clears its is-active flag, and the active list is
\* empty immediately after the pop.
C32_PopEmptiesActiveList ==
    cs.lastPop # <<>> =>
        /\ LastPop.spliced.active = {}
        /\ ActiveAtPop \subseteq LastPop.spliced.inactive
        /\ ActiveAtPop \cap LastPop.spliced.isActive = {}
        /\ LastPop.after.active = {}

\* C32, witness: a scope has been popped with constraints still active, as
\* after a simplify that stopped at a failure.
C32_Witness ==
    /\ cs.lastPop # <<>>
    /\ ActiveAtPop # {}
    /\ LastPop.after.active = {}

\* The filter ended with no viable alternative and was asked to restore.
FilterFailedRestoring ==
    /\ Filtered
    /\ passResult = "Error"
    /\ workList[1].restoreOnFail
FilteredAfter == cs.InactiveConstraints[workList[1].position]

\* C33: when filterDisjunction ends with no viable alternative and was asked
\* to restore on failure, every alternative is enabled or disabled exactly as
\* it was before the call, and so is the solver state's record of the
\* constraints it disabled.
C33_RestoreOnFailRestoresEverything ==
    FilterFailedRestoring =>
        /\ \A i \in 1..Len(FilteredDisjunction.alts) :
               isDisabled(FilteredAfter.alts[i]) = isDisabled(FilteredDisjunction.alts[i])
        /\ cs.disabledConstraints = DisjunctionEntry.disabledConstraints

\* The candidate solved last had no solution; the overload set references
\* beneath its expression.
CandidateFailed == pc = "candidates" /\ problem.candidate # {} /\ prevFailed
BeneathCandidate == problem.candidate \cap OverloadSets(problem.constraints)

\* C34: when a candidate of shrink has failed to solve, every overload set
\* reference beneath the candidate's expression has the domain it was
\* written with and is not in the set of shrunk expressions.
C34_FailedCandidateRestoresDomains ==
    CandidateFailed =>
        \A OSR \in BeneathCandidate :
            /\ getDecls(problem.constraints, OSR) = getDecls(problem.written, OSR)
            /\ OSR \notin problem.shrunkExprs

\* The solver state is destroyed in this step; the constraints that were
\* active when it was created.
SolverStateDestroyed == cs.solverState /\ ~cs'.solverState
InitiallyActive == Range(cs.activeConstraints)

\* C35: when a solver state is destroyed, every constraint that was active
\* when it was created is active again; each of them that is not active at
\* that point is on the inactive list; and no constraint is left retired or
\* generated and unhandled.
C35_DestroyedStateReactivates ==
    [][SolverStateDestroyed =>
          /\ \A c \in InitiallyActive :
                 /\ c.id \in cs'.isActive
                 /\ c \in Range(cs'.ActiveConstraints)
                 /\ c.id \notin cs.isActive => c \in Range(cs.InactiveConstraints)
          /\ cs.retiredConstraints = <<>>
          /\ cs.generatedConstraints = <<>>
          /\ ~cs'.fatal]_vars

\* C35, witness: a solver state created with a constraint active has been
\* destroyed after a search that produced solutions and whose last scope pop
\* had left the constraint on the inactive list, and the constraint is active
\* again.
C35_Witness ==
    /\ pc = "dispatch"
    /\ ~cs.solverState
    /\ solutions # <<>>
    /\ GeneratedSystem.ActiveConstraints # <<>>
    /\ cs.lastPop # <<>>
    /\ Range(GeneratedSystem.ActiveConstraints) \subseteq LastPop.after.inactive
    /\ Range(GeneratedSystem.ActiveConstraints) \subseteq Range(cs.ActiveConstraints)

\* ------------------------------------------------ C36: constraint lists
\* The constraints a disjunction step holds while it attempts their
\* alternatives: the step took them off the inactive list and puts them back
\* when it is done.
HeldBySteps ==
    UNION {Ids(workList[i].disjunction) :
             i \in {j \in 1..Len(workList) : workList[j].kind = "Disjunction"}}
\* The constraints of the system under a solver state: those constraint
\* generation left in the lists and those generated in the open scopes, but
\* for the ones a step holds.
LiveConstraints ==
    (Ids(GeneratedSystem.ActiveConstraints)
       \cup Ids(GeneratedSystem.InactiveConstraints)
       \cup Ids(cs.generatedConstraints)) \ HeldBySteps
TimesListed(list, id) == Cardinality({i \in 1..Len(list) : list[i].id = id})
TimesHeld(id) ==
    TimesListed(cs.ActiveConstraints, id) + TimesListed(cs.InactiveConstraints, id)
        + TimesListed(cs.retiredConstraints, id)

\* C36: between operations every live constraint is held exactly once by
\* exactly one of the active list, the inactive list and the retired
\* constraints, no list holds anything else twice, and the constraints whose
\* is-active flag is set are exactly those on the active list.
C36_ConstraintInExactlyOneList ==
    /\ cs.solverState => \A id \in LiveConstraints : TimesHeld(id) = 1
    /\ \A id \in Ids(cs.ActiveConstraints) \cup Ids(cs.InactiveConstraints)
                   \cup Ids(cs.retiredConstraints) : TimesHeld(id) = 1
    /\ cs.isActive = Ids(cs.ActiveConstraints)

\* C36, witness: in the middle of a search all three collections hold
\* constraints, after a scope pop that spliced active constraints into the
\* inactive list.
C36_Witness ==
    /\ cs.solverState
    /\ cs.ActiveConstraints # <<>>
    /\ cs.InactiveConstraints # <<>>
    /\ cs.retiredConstraints # <<>>
    /\ ActiveAtPop # {}

\* ------------------------------------------- C37: scopes and failure
\* C37: no solver scope is opened while a failed constraint is recorded.
C37_NoScopeOpenedWhileFailed == ~cs.openedWhileFailed

\* C37, witness: an alternative of a disjunction failed in its scope, the
\* scope was closed, and the scope of the next alternative is now open.
C37_Witness ==
    /\ Len(cs.scopes) >= 2
    /\ Popped
    /\ LastPop.failedAtPop # None
    /\ LastPop.depth = Len(cs.scopes)
    /\ cs.failedConstraint = None
    /\ pc = "simplify"
    /\ Top.kind = "Disjunction"
    /\ Top.state = "Running"
    /\ Top.index >= 2

\* ------------------------------------------------- C38: the best score
\* A step of one solve: the solver state lives through it.
WithinOneSolve == cs.solverState /\ cs'.solverState /\ stage' = stage
ScopePopped == cs'.lastPop # cs.lastPop \/ Len(cs'.scopes) < Len(cs.scopes)

\* C38: within one solve no step raises the best score or forgets it, a step
\* that pops a scope leaves it as it was, and unless the performance hacks
\* are disabled every solution was finalized with a score no worse than the
\* best score recorded before it.
C38_BestScoreOnlyImproves ==
    [][/\ (WithinOneSolve /\ cs.BestScore # <<>>)
          => /\ cs'.BestScore # <<>>
             /\ ScoreLessEq(cs'.BestScore[1], cs.BestScore[1])
       /\ (WithinOneSolve /\ ScopePopped) => cs'.BestScore = cs.BestScore
       /\ HacksEnabled
          => \A i \in 1..Len(solutions') :
                \/ solutions'[i].bestBefore = <<>>
                \/ ScoreLessEq(solutions'[i].score, solutions'[i].bestBefore[1])]_vars

\* C38, witness: with the performance hacks disabled a solution was finalized
\* with a score worse than the best recorded before it, scopes have been
\* popped since, and the best score is still the better one.
C38_Witness ==
    /\ ~HacksEnabled
    /\ cs.solverState
    /\ Popped
    /\ cs.BestScore # <<>>
    /\ \E i \in 1..Len(solutions) :
          /\ solutions[i].bestBefore # <<>>
          /\ ScoreLess(solutions[i].bestBefore[1], solutions[i].score)
          /\ ScoreLessEq(cs.BestScore[1], solutions[i].bestBefore[1])

\* ------------------------------------------------ C39: the work list
\* solveImpl advances a step in this transition.
Advancing == workList # <<>> /\ workList' # workList
\* The step at the top returns Error: the step wrapping the system when
\* simplify failed, the expression is too complex or the leaf is not a
\* solution, when resumed after a failure; the disjunction step when it is
\* out of alternatives and none led to a solution.
TopReturnsError ==
    IF Top.kind = "Splitter"
    THEN IF Top.state = "Suspended" THEN prevFailed
         ELSE \/ SimplifyFailed
              \/ getExpressionTooComplex
              \/ cs.AllowFreeTypeVariables = "Disallow" /\ hasFreeTypeVariables(cs)
              \/ worseThanBestSolution(cs)
    ELSE ~Top.anySolved

\* C39: the steps are executed last in, first out.  Only the step at the
\* top of the work list is advanced: the steps beneath it stay as they are;
\* a step that returns Unsolved stays, suspended, beneath the one step it
\* pushed, and so is advanced again only when that step and all pushed after
\* it have been popped; a step leaves the work list only from its top, and
\* the flag is then set exactly when it returned Error, so that the step
\* resumed next receives the outcome of the step advanced immediately
\* before: a resumed disjunction step counts its alternative as solved
\* exactly when the flag is clear.
C39_StepsAdvanceLastInFirstOut ==
    [][Advancing =>
         /\ Len(workList') >= Len(workList) - 1
         /\ \A i \in 1..(Len(workList) - 1) : workList'[i] = workList[i]
         /\ Len(workList') > Len(workList) =>
               /\ Len(workList') = Len(workList) + 1
               /\ workList'[Len(workList)] = [Top EXCEPT !.state = "Suspended"]
               /\ workList'[Len(workList')].state = "Setup"
               /\ ~prevFailed'
         /\ Len(workList') < Len(workList) =>
               /\ pc' = "advance"
               /\ prevFailed' = TopReturnsError
         /\ (Top.state = "Suspended" /\ Len(workList') = Len(workList)) =>
               /\ pc = "advance"
               /\ Top.kind = "Disjunction"
               /\ prevFailed' = prevFailed
               /\ workList'[Len(workList)] =
                      [Top EXCEPT !.state = "Ready", !.anySolved = @ \/ ~prevFailed]]_vars

\* C39, witness: a disjunction step that returned Unsolved is at the top of
\* the work list again, above the suspended step that pushed it, and the step
\* pushed after it has been popped having returned Error.
C39_Witness ==
    /\ pc = "advance"
    /\ Len(workList) >= 2
    /\ Top.kind = "Disjunction"
    /\ Top.state = "Suspended"
    /\ workList[Len(workList) - 1].state = "Suspended"
    /\ prevFailed
    /\ Top.anySolved

\* ------------------------------------------ C40: placeholder bindings
\* The type variables of s that are bound to the placeholder.
PlaceholderBound(s) ==
    {v \in Range(s.TypeVariables) : getFixedType(s, v) = UnresolvedType}
\* A leaf has just been finalized and the scope around it is still open: the
\* step that reached it has been popped, and the next thing solveImpl does
\* is resume the disjunction step of the branch, or return.
LeafScopeStillOpen ==
    /\ cs.solverState
    /\ pc = "advance"
    /\ cs.scopes # <<>>
    /\ workList = <<>> \/ (Top.kind = "Disjunction" /\ Top.state = "Suspended")

\* The search is over and the solution chosen has been applied to the
\* system, which binds the type variables as the solution says.
SolutionApplied == ~cs.solverState /\ pc = "applied"

\* C40: during the search a type variable is bound to the placeholder only
\* from the moment a leaf is finalized until the scope around the leaf is
\* popped; the pop leaves no variable bound to the placeholder, no
\* constraint on the active list, and the bindings, the scores and the
\* constraints as they were when the scope was opened; so no branch
\* attempted later starts from a placeholder binding.
C40_PlaceholderBindingsUndone ==
    /\ PlaceholderBound(cs) # {} => (LeafScopeStillOpen \/ SolutionApplied)
    /\ Popped =>
          /\ \A v \in Range(LastPop.after.TypeVariables) :
                LastPop.after.fixed[v] # UnresolvedType
          /\ LastPop.after.active = {}
          /\ ButForActivity(LastPop.after) = ButForActivity(LastPop.before)

\* C40, witness: a later alternative of a disjunction is being attempted, in
\* a scope opened after the pop of a scope in which finalize had bound a
\* variable to the placeholder and so reactivated a constraint.
C40_Witness ==
    /\ cs.AllowFreeTypeVariables = "UnresolvedType"
    /\ Popped
    /\ \E v \in Range(LastPop.atPop.TypeVariables) :
          LastPop.atPop.fixed[v] = UnresolvedType
    /\ LastPop.atPop.active # {}
    /\ PlaceholderBound(cs) = {}
    /\ solutions # <<>>
    /\ workList # <<>>
    /\ Top.kind = "Disjunction"
    /\ Top.state = "Running"
    /\ Top.index >= 2

====
